---- MODULE Spec2Model ----
(***************************************************************************)
(* Model of the Meticulous -> Gaggimate translation engine                 *)
(* (src/src/translate_profile/translator.py, exit_mode.py).                *)
(*                                                                         *)
(* Numbers.  Every real quantity of the program (seconds, bar, ml/s, the   *)
(* values of curve points and exit triggers) is an integer number of       *)
(* thousandths: 2.0 bar is 2000, 0.1 s is 100, 0.05 ml/s is 50.  The       *)
(* inputs are multiples of 0.01, so value / 10.0 is exact.                 *)
(*                                                                         *)
(* Text.  Stage names and keys are sequences of one-character strings, so  *)
(* that prefix tests, case folding and the "(i/N)" suffix are computed.    *)
(* Messages and locations are sequences of string pieces.                  *)
(***************************************************************************)
EXTENDS Integers, Sequences, FiniteSets, TLC

VARIABLES
    meticulous_data,   \* the source profile handed to translate_profile
    transition_mode,   \* the transition_mode argument
    pc,                \* "start" | "loop" | "done" | "error" ("idle": no call)
    stage_idx,         \* 1-based position of `for stage in meticulous.stages`
    seg,               \* loop variable i of `for i in range(1, num_points)`
    phases,            \* phases: list[GaggimatePhase]
    warned,            \* the warnings.warn(...) calls made so far, in order
    meticulous,        \* meticulous = MeticulousProfile(**meticulous_data)
    raised,            \* the exception that left translate_profile
    returned,          \* what translate_profile returned
    cli,               \* the translate command: "translating" | "success" |
                       \* "exit1" (typer.Exit(1)) | "crashed" (uncaught exception)
    triggers,          \* convert_exit_triggers / detect_conflicting_triggers: argument
    phase_start_time,  \* convert_exit_triggers: argument
    xpc,               \* "call" | "detected" | "converted" ("idle": no call)
    conflict_warnings, \* what detect_conflicting_triggers returned
    targets,           \* what convert_exit_triggers returned, first component
    warnings_list,     \* what convert_exit_triggers returned, second component
    document,          \* resolve_variables: the dict passed as data
    depth_limit,       \* resolve_variables: argument max_depth
    rpc,               \* "call" | "resolved" | "twice" | "raised" |
                       \* "raised_again" ("idle": no call)
    given,             \* a copy of the document as it was passed
    first_result,      \* a copy of what the first application returned
    resolve_error,     \* the exception that left resolve_variables
    vpc,               \* the validator: "wait" | "matched" ("idle": no call)
    matches,           \* what match_phases returned
    files,             \* process_batch: argument files, with what the file
                       \* system holds for each path
    file_idx,          \* 1-based position of `for file_path in track(files, ...)`
    bpc,               \* "read" | "translate" | "finished" ("idle": no call)
    results,           \* process_batch: the local list results
    batch_result       \* the BatchResult returned

vars == <<meticulous_data, transition_mode, pc, stage_idx, seg, phases, warned,
          meticulous, raised, returned, cli,
          triggers, phase_start_time, xpc, conflict_warnings, targets, warnings_list,
          document, depth_limit, rpc, given, first_result, resolve_error,
          vpc, matches, files, file_idx, bpc, results, batch_result>>

translateVars == <<meticulous_data, transition_mode, pc, stage_idx, seg, phases, warned,
                   meticulous, raised, returned, cli>>
exitVars == <<triggers, phase_start_time, xpc, conflict_warnings, targets, warnings_list>>
resolveVars == <<document, depth_limit, rpc, given, first_result, resolve_error>>
validateVars == <<vpc, matches>>
batchVars == <<files, file_idx, bpc, results, batch_result>>
translateIdleVars == <<meticulous_data, transition_mode, pc, stage_idx, seg, phases,
                       meticulous, raised, returned, cli>>

----------------------------------------------------------------------------
(* Bounds of the model *)

MaxStages == 2
MaxPoints == 3
MaxTriggers == 3
MaxChain == 11
MaxDepth == 3

----------------------------------------------------------------------------
(* Generic helpers *)

Max(a, b) == IF a >= b THEN a ELSE b

Abs(x) == IF x < 0 THEN 0 - x ELSE x

RECURSIVE SumSeq(_)
SumSeq(s) == IF s = <<>> THEN 0 ELSE Head(s) + SumSeq(Tail(s))

\* str.startswith
StartsWith(s, prefix) ==
    /\ Len(s) >= Len(prefix)
    /\ SubSeq(s, 1, Len(prefix)) = prefix

\* The sequences of length 0..n over S
SeqUpTo(S, n) == UNION {[1..k -> S] : k \in 0..n}

\* Concatenation of a sequence of sequences
RECURSIVE Flatten(_)
Flatten(ss) == IF ss = <<>> THEN <<>> ELSE Head(ss) \o Flatten(Tail(ss))

Range(s) == {s[k] : k \in DOMAIN s}

UpperAlphabet ==
    <<"A", "B", "C", "D", "E", "F", "G", "H", "I", "J", "K", "L", "M",
      "N", "O", "P", "Q", "R", "S", "T", "U", "V", "W", "X", "Y", "Z">>

LowerAlphabet ==
    <<"a", "b", "c", "d", "e", "f", "g", "h", "i", "j", "k", "l", "m",
      "n", "o", "p", "q", "r", "s", "t", "u", "v", "w", "x", "y", "z">>

----------------------------------------------------------------------------
(* exit_mode.py *)

TRIGGER_TO_TARGET_TYPE ==
    [weight |-> "volumetric", time |-> "time", pressure |-> "pressure", flow |-> "flow"]

OPERATOR_MAP == (">=" :> "gte") @@ ("<=" :> "lte") @@ (">" :> "gt") @@ ("<" :> "lt")

UNSUPPORTED_TYPES == {"piston_position", "power", "user_interaction"}

\* dict.get(key, default)
DictGet(d, k, default) == IF k \in DOMAIN d THEN d[k] ELSE default

Conflict(a, b) ==
    [tag |-> "Validation", kind |-> "conflict", type |-> a.type,
     comparison |-> a.comparison, value |-> a.value,
     other_comparison |-> b.comparison, other_value |-> b.value]

\* _check_trigger_pair_conflict with >= for > in its first test
CheckPairConflictNonStrict(a, b) ==
    IF a.comparison = ">=" /\ b.comparison = "<=" /\ a.value >= b.value
        THEN <<Conflict(a, b)>>
    ELSE IF a.comparison = "<=" /\ b.comparison = ">=" /\ b.value > a.value
        THEN <<Conflict(a, b)>>
    ELSE IF a.comparison = ">" /\ b.comparison = "<" /\ a.value >= b.value
        THEN <<Conflict(a, b)>>
    ELSE IF a.comparison = "<" /\ b.comparison = ">" /\ b.value >= a.value
        THEN <<Conflict(a, b)>>
    ELSE IF a.comparison = ">=" /\ b.comparison = "<" /\ a.value >= b.value
        THEN <<Conflict(a, b)>>
    ELSE IF a.comparison = "<" /\ b.comparison = ">=" /\ b.value >= a.value
        THEN <<Conflict(a, b)>>
    ELSE IF a.comparison = "<=" /\ b.comparison = ">" /\ a.value < b.value
        THEN <<Conflict(a, b)>>
    ELSE IF a.comparison = ">" /\ b.comparison = "<=" /\ b.value < a.value
        THEN <<Conflict(a, b)>>
    ELSE <<>>

\* _check_trigger_pair_conflict: <<>> for None, else a one-element sequence
\* holding the conflict message.
_check_trigger_pair_conflict(a, b) ==
    IF a.comparison = ">=" /\ b.comparison = "<=" /\ a.value > b.value
        THEN <<Conflict(a, b)>>
    ELSE IF a.comparison = "<=" /\ b.comparison = ">=" /\ b.value > a.value
        THEN <<Conflict(a, b)>>
    ELSE IF a.comparison = ">" /\ b.comparison = "<" /\ a.value >= b.value
        THEN <<Conflict(a, b)>>
    ELSE IF a.comparison = "<" /\ b.comparison = ">" /\ b.value >= a.value
        THEN <<Conflict(a, b)>>
    ELSE IF a.comparison = ">=" /\ b.comparison = "<" /\ a.value >= b.value
        THEN <<Conflict(a, b)>>
    ELSE IF a.comparison = "<" /\ b.comparison = ">=" /\ b.value >= a.value
        THEN <<Conflict(a, b)>>
    ELSE IF a.comparison = "<=" /\ b.comparison = ">" /\ a.value < b.value
        THEN <<Conflict(a, b)>>
    ELSE IF a.comparison = ">" /\ b.comparison = "<=" /\ b.value < a.value
        THEN <<Conflict(a, b)>>
    ELSE <<>>

\* The keys of triggers_by_type, in insertion (first occurrence) order.
RECURSIVE TypesInOrder(_, _)
TypesInOrder(ts, seen) ==
    IF ts = <<>> THEN <<>>
    ELSE IF Head(ts).type \in seen THEN TypesInOrder(Tail(ts), seen)
    ELSE <<Head(ts).type>> \o TypesInOrder(Tail(ts), seen \cup {Head(ts).type})

\* triggers_by_type[ty]
TriggersOfType(ts, ty) == SelectSeq(ts, LAMBDA t : t.type = ty)

\* The two nested loops over the pairs (a, b), a before b, of one type's triggers.
RECURSIVE PairConflicts(_, _, _)
PairConflicts(g, a, b) ==
    IF a > Len(g) THEN <<>>
    ELSE IF b > Len(g) THEN PairConflicts(g, a + 1, a + 2)
    ELSE _check_trigger_pair_conflict(g[a], g[b]) \o PairConflicts(g, a, b + 1)

RECURSIVE ConflictsByType(_, _)
ConflictsByType(ts, types) ==
    IF types = <<>> THEN <<>>
    ELSE (IF Len(TriggersOfType(ts, Head(types))) < 2 THEN <<>>
          ELSE PairConflicts(TriggersOfType(ts, Head(types)), 1, 2))
         \o ConflictsByType(ts, Tail(types))

detect_conflicting_triggers(ts) == ConflictsByType(ts, TypesInOrder(ts, {}))

Unsupported(t) == [tag |-> "Unsupported", kind |-> "unsupported", type |-> t.type]

Duplicate(t, prev) ==
    [tag |-> "Validation", kind |-> "duplicate", type |-> t.type,
     comparison |-> t.comparison, value |-> t.value,
     other_comparison |-> prev[1], other_value |-> prev[2]]

\* The value of the ExitTarget built from trigger t.
CalculatedValue(t, start) ==
    IF t.type = "time" /\ t.relative THEN start + t.value ELSE t.value

ExitTargetOf(t, start) ==
    [type |-> DictGet(TRIGGER_TO_TARGET_TYPE, t.type, t.type),
     operator |-> DictGet(OPERATOR_MAP, t.comparison, "gte"),
     value |-> CalculatedValue(t, start)]

RECURSIVE ConvertLoop(_, _, _)
\* ConvertLoop with a later trigger of a type overwriting the target kept for it
ConvertLoopKeepLast(ts, start, acc) ==
    IF ts = <<>> THEN acc
    ELSE LET t == Head(ts) IN
         IF t.type \in UNSUPPORTED_TYPES
             THEN ConvertLoop(Tail(ts), start,
                     [acc EXCEPT !.unsupported = Append(@, Unsupported(t))])
         ELSE IF t.type \in DOMAIN acc.seen_types
             THEN ConvertLoop(Tail(ts), start,
                     [acc EXCEPT
                        !.duplicates = Append(@, Duplicate(t, acc.seen_types[t.type])),
                        !.targets = [k \in DOMAIN @ |->
                                       IF @[k].type = ExitTargetOf(t, start).type
                                           THEN ExitTargetOf(t, start) ELSE @[k]]])
         ELSE ConvertLoop(Tail(ts), start,
                     [acc EXCEPT
                        !.seen_types = (t.type :> <<t.comparison, t.value>>) @@ @,
                        !.targets = Append(@, ExitTargetOf(t, start))])

\* ConvertLoop without the test for unsupported types
ConvertLoopNoFilter(ts, start, acc) ==
    IF ts = <<>> THEN acc
    ELSE LET t == Head(ts) IN
         IF t.type \in DOMAIN acc.seen_types
             THEN ConvertLoop(Tail(ts), start,
                     [acc EXCEPT
                        !.duplicates = Append(@, Duplicate(t, acc.seen_types[t.type]))])
         ELSE ConvertLoop(Tail(ts), start,
                     [acc EXCEPT
                        !.seen_types = (t.type :> <<t.comparison, t.value>>) @@ @,
                        !.targets = Append(@, ExitTargetOf(t, start))])

\* The loop `for trigger in triggers` of convert_exit_triggers; acc holds the
\* locals targets, seen_types, duplicates and the [Unsupported] part of warnings.
ConvertLoop(ts, start, acc) ==
    IF ts = <<>> THEN acc
    ELSE LET t == Head(ts) IN
         IF t.type \in UNSUPPORTED_TYPES
             THEN ConvertLoop(Tail(ts), start,
                     [acc EXCEPT !.unsupported = Append(@, Unsupported(t))])
         ELSE IF t.type \in DOMAIN acc.seen_types
             THEN ConvertLoop(Tail(ts), start,
                     [acc EXCEPT
                        !.duplicates = Append(@, Duplicate(t, acc.seen_types[t.type]))])
         ELSE ConvertLoop(Tail(ts), start,
                     [acc EXCEPT
                        !.seen_types = (t.type :> <<t.comparison, t.value>>) @@ @,
                        !.targets = Append(@, ExitTargetOf(t, start))])

\* convert_exit_triggers: <<targets, warnings>>
convert_exit_triggers(ts, start) ==
    LET acc == ConvertLoop(ts, start,
                   [targets |-> <<>>, seen_types |-> <<>>,
                    duplicates |-> <<>>, unsupported |-> <<>>])
    IN  <<acc.targets,
          detect_conflicting_triggers(ts) \o acc.unsupported \o acc.duplicates>>

----------------------------------------------------------------------------
(* translator.py: constants and helpers of translate_profile *)

MIN_PRESSURE == 1000

MAX_PRESSURE == 10000

MIN_BLOOM_PRESSURE == 2000

SMART_INTERPOLATION_MAP ==
    [linear |-> "linear", step |-> "linear", instant |-> "instant",
     bezier |-> "ease-in-out", spline |-> "ease-in-out"]

PRESERVE_INTERPOLATION_MAP ==
    [linear |-> "linear", step |-> "linear", instant |-> "linear",
     bezier |-> "bezier", spline |-> "spline"]

calculate_transition_duration(pressure_delta, transition_type, mode) ==
    IF transition_type = "instant" THEN 0
    ELSE IF mode = "preserve" THEN 5000
    ELSE IF pressure_delta > 3000 THEN 1500
    ELSE IF pressure_delta < 1000 THEN 7000
    ELSE 4000

\* validate_pressure_range: the warnings it emits (none or one)
validate_pressure_range(pressure, stage_name) ==
    IF pressure < MIN_PRESSURE \/ pressure > MAX_PRESSURE
        THEN <<[stage |-> stage_name,
                warning |-> [tag |-> "Range", kind |-> "pressure_range",
                             pressure |-> pressure]]>>
    ELSE <<>>

Blooming == <<"b", "l", "o", "o", "m", "i", "n", "g">>

\* is_bloom of a flow stage
IsBloom(stage, target_value) ==
    StartsWith(stage.key, Blooming) /\ target_value <= 100

\* PumpMapping with the flow and pressure arguments of a flow stage exchanged
PumpMappingSwapped(stage, target_value) ==
    IF stage.type = "power"
        THEN [target |-> "pressure", pressure |-> target_value \div 10, flow |-> 10000]
    ELSE IF stage.type = "flow"
        THEN IF IsBloom(stage, target_value)
                 THEN [target |-> "pressure", pressure |-> MIN_BLOOM_PRESSURE, flow |-> 0]
             ELSE [target |-> "flow", flow |-> 12000, pressure |-> target_value]
    ELSE [target |-> "pressure", pressure |-> target_value, flow |-> 10000]

\* The PumpSettings(...) arguments chosen for a segment with terminal value
\* target_value (the same chain in the single-point and the multi-point branch).
PumpMapping(stage, target_value) ==
    IF stage.type = "power"
        THEN [target |-> "pressure", pressure |-> target_value \div 10, flow |-> 10000]
    ELSE IF stage.type = "flow"
        THEN IF IsBloom(stage, target_value)
                 THEN [target |-> "pressure", pressure |-> MIN_BLOOM_PRESSURE, flow |-> 0]
             ELSE [target |-> "flow", flow |-> target_value, pressure |-> 12000]
    ELSE [target |-> "pressure", pressure |-> target_value, flow |-> 10000]

\* pydantic: PumpSettings.pressure ge=0 le=15, PumpSettings.flow ge=0
PumpSettingsValid(pump) ==
    /\ pump.pressure >= 0
    /\ pump.pressure <= 15000
    /\ pump.flow >= 0

\* TransitionType with the smart table also used in preserve mode
TransitionTypeSmartTable(stage, mode) ==
    IF mode = "smart" \/ mode = "preserve"
        THEN IF stage.type = "flow" THEN "instant"
             ELSE DictGet(SMART_INTERPOLATION_MAP, stage.interpolation, "linear")
    ELSE IF mode = "linear" THEN "linear"
    ELSE "instant"

\* The if/elif chain on transition_mode that sets transition_type
TransitionType(stage, mode) ==
    IF mode = "smart"
        THEN IF stage.type = "flow" THEN "instant"
             ELSE DictGet(SMART_INTERPOLATION_MAP, stage.interpolation, "linear")
    ELSE IF mode = "preserve"
        THEN IF stage.type = "flow" THEN "instant"
             ELSE DictGet(PRESERVE_INTERPOLATION_MAP, stage.interpolation, "linear")
    ELSE IF mode = "linear" THEN "linear"
    ELSE "instant"

\* phase_type_map.get(stage.key, stage.key)
PhaseType(key) ==
    LET preinfusion == <<"p", "r", "e", "i", "n", "f", "u", "s", "i", "o", "n">>
        brew == <<"b", "r", "e", "w">>
    IN  IF key = <<"F", "i", "l", "l">> THEN preinfusion
        ELSE IF key = <<"B", "l", "o", "o", "m">> THEN preinfusion
        ELSE IF key = Blooming THEN preinfusion
        ELSE IF key = <<"E", "x", "t", "r", "a", "c", "t", "i", "o", "n">> THEN brew
        ELSE key

TimeTriggers(ts) == SelectSeq(ts, LAMBDA t : t.type = "time")

\* SinglePointDuration with the loop over the triggers running to its end
SinglePointDurationLastTrigger(stage, transition_type, mode) ==
    IF TimeTriggers(stage.exit_triggers) # <<>>
        THEN LET tt == TimeTriggers(stage.exit_triggers)
                 duration == tt[Len(tt)].value
             IN  IF duration <= 0 THEN 100 ELSE duration
    ELSE LET target_pressure ==
                 IF Len(stage.points) > 0 THEN stage.points[1][2] ELSE 0
             pressure_delta ==
                 IF stage.type = "pressure" THEN Abs(target_pressure - 0) ELSE 0
         IN  Max(calculate_transition_duration(pressure_delta, transition_type, mode),
                 1000)

\* The duration of the phase of a stage with at most one point
SinglePointDuration(stage, transition_type, mode) ==
    IF TimeTriggers(stage.exit_triggers) # <<>>
        THEN LET duration == Head(TimeTriggers(stage.exit_triggers)).value
             IN  IF duration <= 0 THEN 100 ELSE duration
    ELSE LET target_pressure ==
                 IF Len(stage.points) > 0 THEN stage.points[1][2] ELSE 0
             pressure_delta ==
                 IF stage.type = "pressure" THEN Abs(target_pressure - 0) ELSE 0
         IN  Max(calculate_transition_duration(pressure_delta, transition_type, mode),
                 1000)

\* PhaseDuration without the 0.1 s floor
PhaseDurationNoFloor(stage, i) == stage.points[i + 1][1] - stage.points[i][1]

\* phase_duration of segment i of a split stage
PhaseDuration(stage, i) ==
    LET d == stage.points[i + 1][1] - stage.points[i][1]
    IN  IF d <= 0 THEN 100 ELSE d

\* str(n) for n >= 0
DigitChar == <<"0", "1", "2", "3", "4", "5", "6", "7", "8", "9">>

RECURSIVE Digits(_)
Digits(n) ==
    IF n < 10 THEN <<DigitChar[n + 1]>>
    ELSE Digits(n \div 10) \o <<DigitChar[(n % 10) + 1]>>

\* SplitName with the total written before the index
SplitNameTotalFirst(name, i, total) ==
    name \o <<" ", "(">> \o Digits(total) \o <<"/">> \o Digits(i) \o <<")">>

\* f"{stage.name} ({i}/{num_points - 1})"
SplitName(name, i, total) ==
    name \o <<" ", "(">> \o Digits(i) \o <<"/">> \o Digits(total) \o <<")">>

\* warnings.warn(f"Stage '{stage.name}': {warning}") for each warning
StageWarnings(stage_name, ws) ==
    [k \in 1..Len(ws) |-> [stage |-> stage_name, warning |-> ws[k]]]

\* FinalSegmentStart with the time of the previous point
FinalSegmentStartPrevious(stage, i) == stage.points[i][1]

\* phase_start_time handed to convert_exit_triggers for the final segment
FinalSegmentStart(stage, i) == stage.points[i + 1][1]

\* LoopEnds for range(1, num_points - 1)
LoopEndsEarly(i, num_points) == i >= num_points - 2

\* Is i the last value of `for i in range(1, num_points)`?
LoopEnds(i, num_points) == i = num_points - 1

\* ConvertsOnSegment without the final-segment test
ConvertsOnEverySegment(i, num_points) == TRUE

\* Is exit-trigger conversion done for segment i of a stage with num_points points?
ConvertsOnSegment(i, num_points) == i = num_points - 1

----------------------------------------------------------------------------
(* translator.py: resolve_variables and find_unresolved_variables.          *)
(*                                                                         *)
(* A JSON value of the source document is a record: Num(n) for a number,   *)
(* Str(s) for a string s (a sequence of characters).                       *)

Num(n) == [kind |-> "num", val |-> n]

Str(s) == [kind |-> "str", val |-> s]

IsDollarString(val) == val.kind = "str" /\ StartsWith(val.val, <<"$">>)

\* The characters matched by \w
WordChars == Range(UpperAlphabet) \cup Range(LowerAlphabet) \cup Range(DigitChar) \cup {"_"}

\* The longest prefix of s made of word characters
RECURSIVE WordPrefix(_)
WordPrefix(s) ==
    IF s = <<>> \/ Head(s) \notin WordChars THEN <<>>
    ELSE <<Head(s)>> \o WordPrefix(Tail(s))

\* VAR_PATTERN.match(val).group(1) for a string that starts with "$"; <<>>
\* when the pattern does not match
VAR_PATTERN(s) == WordPrefix(Tail(s))

\* var_key in var_lookup
HasKey(variables, key) == \E k \in DOMAIN variables : variables[k].key = key

\* var_lookup[var_key]: the dict comprehension keeps the last entry of a key
Lookup(variables, key) ==
    variables[CHOOSE k \in DOMAIN variables :
                  /\ variables[k].key = key
                  /\ \A j \in (k + 1)..Len(variables) : variables[j].key # key].value

\* What resolve_value yields when it raises ValueError
DepthExceeded == [kind |-> "raise", val |-> "ValueError"]

RECURSIVE resolve_value(_, _, _, _)
\* resolve_value that stops at the first variable instead of following the chain
resolve_value_one_step(val, depth, variables, max_depth) ==
    IF depth > max_depth THEN DepthExceeded
    ELSE IF IsDollarString(val)
        THEN LET var_key == VAR_PATTERN(val.val)
             IN  IF var_key # <<>> /\ HasKey(variables, var_key)
                     THEN Lookup(variables, var_key)
                 ELSE val
    ELSE val

\* resolve_value with the depth test relaxed by one
resolve_value_late_check(val, depth, variables, max_depth) ==
    IF depth > max_depth + 1 THEN DepthExceeded
    ELSE IF IsDollarString(val)
        THEN LET var_key == VAR_PATTERN(val.val)
             IN  IF var_key # <<>> /\ HasKey(variables, var_key)
                     THEN resolve_value(Lookup(variables, var_key), depth + 1,
                                        variables, max_depth)
                 ELSE val
    ELSE val

\* resolve_value(val, depth) of resolve_variables; the int / float coercion
\* of the resolved value leaves a number as it is
resolve_value(val, depth, variables, max_depth) ==
    IF depth > max_depth THEN DepthExceeded
    ELSE IF IsDollarString(val)
        THEN LET var_key == VAR_PATTERN(val.val)
             IN  IF var_key # <<>> /\ HasKey(variables, var_key)
                     THEN resolve_value(Lookup(variables, var_key), depth + 1,
                                        variables, max_depth)
                 ELSE val
    ELSE val

resolve_points(points, variables, max_depth) ==
    [k \in DOMAIN points |->
        <<resolve_value(points[k][1], 0, variables, max_depth),
          resolve_value(points[k][2], 0, variables, max_depth)>>]

resolve_exit_triggers(ts, variables, max_depth) ==
    [k \in DOMAIN ts |->
        [ts[k] EXCEPT !.value = resolve_value(@, 0, variables, max_depth)]]

resolve_limits(limits, variables, max_depth) ==
    [k \in DOMAIN limits |->
        [limits[k] EXCEPT !.value = resolve_value(@, 0, variables, max_depth)]]

resolve_stage(stage, variables, max_depth) ==
    [stage EXCEPT
        !.points = resolve_points(@, variables, max_depth),
        !.exit_triggers = resolve_exit_triggers(@, variables, max_depth),
        !.limits = resolve_limits(@, variables, max_depth)]

\* The values of a stage in the order in which the scans visit them, each
\* with its location
StageValues(stage, i) ==
    Flatten([j \in DOMAIN stage.points |->
                <<[value |-> stage.points[j][1],
                   location |-> <<"stages[">> \o Digits(i - 1)
                                \o <<"].dynamics.points[">> \o Digits(j - 1)
                                \o <<"][0]">>],
                  [value |-> stage.points[j][2],
                   location |-> <<"stages[">> \o Digits(i - 1)
                                \o <<"].dynamics.points[">> \o Digits(j - 1)
                                \o <<"][1]">>]>>])
    \o [k \in DOMAIN stage.exit_triggers |->
           [value |-> stage.exit_triggers[k].value,
            location |-> <<"stages[">> \o Digits(i - 1) \o <<"].exit_triggers[">>
                         \o Digits(k - 1) \o <<"].value">>]]
    \o [k \in DOMAIN stage.limits |->
           [value |-> stage.limits[k].value,
            location |-> <<"stages[">> \o Digits(i - 1) \o <<"].limits[">>
                         \o Digits(k - 1) \o <<"].value">>]]

DocumentValues(data) ==
    Flatten([i \in DOMAIN data.stages |-> StageValues(data.stages[i], i)])

\* find_unused_variables(data): the keys, in table order, no value refers to
find_unused_variables(data) ==
    LET used_keys ==
            {VAR_PATTERN(e.value.val) :
                e \in {x \in Range(DocumentValues(data)) : IsDollarString(x.value)}}
            \ {<<>>}
        unused == SelectSeq(data.variables, LAMBDA v : v.key \notin used_keys)
    IN  [k \in DOMAIN unused |-> unused[k].key]

\* warnings.warn(f"Unused variables: ...")
UnusedWarning(unused) ==
    IF unused = <<>> THEN <<>>
    ELSE <<[stage |-> <<>>,
            warning |-> [tag |-> "Unused variables", kind |-> "unused_variables",
                         keys |-> unused]]>>

\* resolve_variables(data, max_depth): the document it returns (the same dict,
\* its "stages" replaced), the ValueError it raises, the warnings it emits
resolve_variables(data, max_depth) ==
    IF data.variables = <<>> THEN [raises |-> FALSE, data |-> data, warned |-> <<>>]
    ELSE LET resolved_stages ==
                 [i \in DOMAIN data.stages |->
                     resolve_stage(data.stages[i], data.variables, max_depth)]
             resolved == [data EXCEPT !.stages = resolved_stages]
         IN  IF \E e \in Range(DocumentValues(resolved)) : e.value.kind = "raise"
                 THEN [raises |-> TRUE, data |-> data, warned |-> <<>>,
                       error |-> [type |-> "ValueError", max_depth |-> max_depth]]
             ELSE [raises |-> FALSE, data |-> resolved,
                   warned |-> UnusedWarning(find_unused_variables(resolved))]

\* find_unresolved_variables with the pattern's key in place of val[1:]
find_unresolved_by_pattern(data) ==
    LET unresolved ==
            SelectSeq(DocumentValues(data),
                      LAMBDA e : /\ IsDollarString(e.value)
                                 /\ ~HasKey(data.variables, VAR_PATTERN(e.value.val)))
    IN  [k \in DOMAIN unresolved |->
            [variable |-> unresolved[k].value.val, location |-> unresolved[k].location]]

\* find_unresolved_variables that reports each variable once
find_unresolved_once(data) ==
    LET unresolved ==
            SelectSeq(DocumentValues(data),
                      LAMBDA e : /\ IsDollarString(e.value)
                                 /\ ~HasKey(data.variables, Tail(e.value.val)))
        first == SelectSeq([k \in DOMAIN unresolved |-> k],
                     LAMBDA k : \A j \in 1..(k - 1) :
                                   unresolved[j].value # unresolved[k].value)
    IN  [k \in DOMAIN first |->
            [variable |-> unresolved[first[k]].value.val,
             location |-> unresolved[first[k]].location]]

\* find_unresolved_variables(data): {variable, location} for every value that
\* starts with "$" and whose rest (val[1:]) is no key of the table
find_unresolved_variables(data) ==
    LET unresolved ==
            SelectSeq(DocumentValues(data),
                      LAMBDA e : /\ IsDollarString(e.value)
                                 /\ ~HasKey(data.variables, Tail(e.value.val)))
    IN  [k \in DOMAIN unresolved |->
            [variable |-> unresolved[k].value.val, location |-> unresolved[k].location]]

----------------------------------------------------------------------------
(* validate_profile/core.py: parse_split_suffix *)

\* \d and \s
IsDigit(c) == c \in Range(DigitChar)

IsSpace(c) == c \in {" ", "\t", "\n", "\r"}

\* Number of consecutive digits of s from position k on
RECURSIVE DigitRun(_, _)
DigitRun(s, k) ==
    IF k > Len(s) \/ ~IsDigit(s[k]) THEN 0 ELSE 1 + DigitRun(s, k + 1)

\* int(text) for a string of digits
RECURSIVE ToInt(_)
ToInt(ds) ==
    IF ds = <<>> THEN 0
    ELSE ToInt(SubSeq(ds, 1, Len(ds) - 1)) * 10
         + ((CHOOSE d \in DOMAIN DigitChar : DigitChar[d] = ds[Len(ds)]) - 1)

\* Does r"\((\d+)/(\d+)\)\s*$" match s from position k on?
SuffixMatchesAt(s, k) ==
    /\ s[k] = "("
    /\ LET a == DigitRun(s, k + 1)
       IN  /\ a > 0
           /\ k + 1 + a <= Len(s)
           /\ s[k + 1 + a] = "/"
           /\ LET b == DigitRun(s, k + 2 + a)
              IN  /\ b > 0
                  /\ k + 2 + a + b <= Len(s)
                  /\ s[k + 2 + a + b] = ")"
                  /\ \A j \in (k + 3 + a + b)..Len(s) : IsSpace(s[j])

\* str.strip()
RECURSIVE Strip(_)
Strip(s) ==
    IF s = <<>> THEN s
    ELSE IF IsSpace(Head(s)) THEN Strip(Tail(s))
    ELSE IF IsSpace(s[Len(s)]) THEN Strip(SubSeq(s, 1, Len(s) - 1))
    ELSE s

\* parse_split_suffix: <<base_name, index, total>>, or <<>> for None
parse_split_suffix(name) ==
    IF \E k \in DOMAIN name : SuffixMatchesAt(name, k)
        THEN LET start == CHOOSE k \in DOMAIN name :
                              /\ SuffixMatchesAt(name, k)
                              /\ \A j \in 1..(k - 1) : ~SuffixMatchesAt(name, j)
                 a == DigitRun(name, start + 1)
                 b == DigitRun(name, start + 2 + a)
             IN  <<Strip(SubSeq(name, 1, start - 1)),
                   ToInt(SubSeq(name, start + 1, start + a)),
                   ToInt(SubSeq(name, start + 2 + a, start + 1 + a + b))>>
    ELSE <<>>

----------------------------------------------------------------------------
(* validate_profile/core.py: match_phases.  Stages and phases are given by   *)
(* their names; a match holds the positions of its stage and its phase.      *)

\* name.split(" (")[0]
RECURSIVE SplitBase(_)
SplitBase(name) ==
    IF Len(name) < 2 THEN name
    ELSE IF name[1] = " " /\ name[2] = "(" THEN <<>>
    ELSE <<Head(name)>> \o SplitBase(Tail(name))

\* The value of split_index and total_splits of a match of a regular phase
NoSplit == 0 - 1

\* PhaseMatch(meticulous_stage, gaggimate_phase, split_index, total_splits)
PhaseMatch(stage, phase, index, total) ==
    [meticulous_stage |-> stage, gaggimate_phase |-> phase,
     split_index |-> index, total_splits |-> total]

\* The `while stage_index < len(meticulous_stages)` loop for a split phase:
\* the position of the stage it matches (0 when it runs off the list) and the
\* stage_index it leaves.  Positions are 1-based.
RECURSIVE FindStage(_, _, _, _)
FindStage(stage_names, base_name, index, stage_index) ==
    IF stage_index > Len(stage_names) THEN [stage |-> 0, next |-> stage_index]
    ELSE IF \/ SplitBase(stage_names[stage_index]) = base_name
            \/ stage_names[stage_index] = base_name
            \/ index = 1
        THEN [stage |-> stage_index, next |-> stage_index + 1]
    ELSE FindStage(stage_names, base_name, index, stage_index + 1)

RECURSIVE MatchLoop(_, _, _, _)
\* The loop `for gaggimate_phase in gaggimate_phases` from phase p on
MatchLoop(stage_names, phase_names, p, stage_index) ==
    IF p > Len(phase_names) \/ stage_index > Len(stage_names) THEN <<>>
    ELSE LET split_info == parse_split_suffix(phase_names[p])
         IN  IF split_info # <<>>
                 THEN LET f == FindStage(stage_names, split_info[1], split_info[2],
                                         stage_index)
                      IN  (IF f.stage = 0 THEN <<>>
                           ELSE <<PhaseMatch(f.stage, p, split_info[2], split_info[3])>>)
                          \o MatchLoop(stage_names, phase_names, p + 1, f.next)
             ELSE <<PhaseMatch(stage_index, p, NoSplit, NoSplit)>>
                  \o MatchLoop(stage_names, phase_names, p + 1, stage_index + 1)

\* match_phases(meticulous_stages, gaggimate_phases)
match_phases(stage_names, phase_names) == MatchLoop(stage_names, phase_names, 1, 1)

----------------------------------------------------------------------------
(* translate_profile as a state machine *)

stages == meticulous.stages

\* max_depth: int = 10
DEFAULT_MAX_DEPTH == 10

\* sep.join(items)
RECURSIVE Join(_, _)
Join(items, sep) ==
    IF items = <<>> THEN <<>>
    ELSE IF Len(items) = 1 THEN items[1]
    ELSE items[1] \o sep \o Join(Tail(items), sep)

\* UndefinedVariableError(variable_name=var_names, location=locations)
UndefinedVariableError(unresolved) ==
    [type |-> "UndefinedVariableError",
     variable_name |-> Join([k \in DOMAIN unresolved |-> unresolved[k].variable],
                            <<", ">>),
     location |-> Join([k \in DOMAIN unresolved |-> unresolved[k].location], <<"; ">>)]

\* Does MeticulousProfile(**meticulous_data) validate?  Variable.value and
\* ExitTrigger.value are floats, the points are lists of numbers; the limits
\* are plain dicts.  (No string of the model spells a number.)
ModelValidates(data) ==
    /\ \A k \in DOMAIN data.variables : data.variables[k].value.kind = "num"
    /\ \A i \in DOMAIN data.stages :
           /\ \A j \in DOMAIN data.stages[i].points :
                  /\ data.stages[i].points[j][1].kind = "num"
                  /\ data.stages[i].points[j][2].kind = "num"
           /\ \A k \in DOMAIN data.stages[i].exit_triggers :
                  data.stages[i].exit_triggers[k].value.kind = "num"

\* The model MeticulousProfile(**meticulous_data) of a document that validates
MeticulousProfile(data) ==
    [name |-> data.name, id |-> data.id, author |-> data.author,
     temperature |-> data.temperature,
     stages |->
        [i \in DOMAIN data.stages |->
            [name |-> data.stages[i].name,
             key |-> data.stages[i].key,
             type |-> data.stages[i].type,
             points |-> [j \in DOMAIN data.stages[i].points |->
                           <<data.stages[i].points[j][1].val,
                             data.stages[i].points[j][2].val>>],
             interpolation |-> data.stages[i].interpolation,
             exit_triggers |->
                 [k \in DOMAIN data.stages[i].exit_triggers |->
                     [data.stages[i].exit_triggers[k] EXCEPT !.value = @.val]]]]]

\* Lines 244-268: variable resolution, the scan for unresolved references,
\* model construction, the empty phase list.
Start ==
    /\ pc = "start"
    /\ LET r == resolve_variables(meticulous_data, DEFAULT_MAX_DEPTH)
           unresolved == find_unresolved_variables(r.data)
       IN  IF r.raises
               THEN /\ pc' = "error"
                    /\ raised' = r.error
                    /\ UNCHANGED <<meticulous_data, warned, meticulous>>
           ELSE /\ meticulous_data' = r.data
                /\ warned' = warned \o r.warned
                /\ IF unresolved # <<>>
                       THEN /\ pc' = "error"
                            /\ raised' = UndefinedVariableError(unresolved)
                            /\ UNCHANGED meticulous
                   ELSE IF ~ModelValidates(r.data)
                       THEN /\ pc' = "error"
                            /\ raised' = [type |-> "ValidationError"]
                            /\ UNCHANGED meticulous
                   ELSE /\ pc' = "loop"
                        /\ meticulous' = MeticulousProfile(r.data)
                        /\ UNCHANGED raised
    /\ stage_idx' = 1
    /\ seg' = 1
    /\ phases' = <<>>
    /\ UNCHANGED <<transition_mode, returned, cli, exitVars, resolveVars, validateVars,
                   batchVars>>

\* One iteration of `for stage in meticulous.stages` for num_points <= 1
SinglePointStage ==
    /\ pc = "loop"
    /\ stage_idx <= Len(stages)
    /\ LET stage == stages[stage_idx]
           num_points == Len(stage.points)
           target_value == IF num_points = 1 THEN stage.points[1][2] ELSE 0
           pump == PumpMapping(stage, target_value)
           range_warnings ==
               IF stage.type = "pressure"
                   THEN validate_pressure_range(target_value, stage.name)
               ELSE <<>>
           converted == convert_exit_triggers(stage.exit_triggers, 0)
           transition_type == TransitionType(stage, transition_mode)
           duration == SinglePointDuration(stage, transition_type, transition_mode)
           phase == [name |-> stage.name,
                     phase |-> PhaseType(stage.key),
                     valve |-> 1,
                     duration |-> duration,
                     transition |-> [type |-> transition_type, duration |-> duration,
                                     adaptive |-> FALSE],
                     pump |-> pump,
                     targets |-> converted[1]]
       IN  /\ num_points <= 1
           /\ IF PumpSettingsValid(pump)
                  THEN /\ phases' = Append(phases, phase)
                       /\ warned' = warned \o range_warnings
                                      \o StageWarnings(stage.name, converted[2])
                       /\ stage_idx' = stage_idx + 1
                       /\ pc' = "loop"
                       /\ UNCHANGED raised
              ELSE \* pydantic ValidationError leaves translate_profile
                   /\ pc' = "error"
                   /\ raised' = [type |-> "ValidationError"]
                   /\ UNCHANGED <<phases, warned, stage_idx>>
    /\ UNCHANGED <<meticulous_data, meticulous, transition_mode, seg, returned, cli,
                   exitVars, resolveVars, validateVars,
                   batchVars>>

\* One iteration of `for i in range(1, num_points)` for num_points >= 2
SplitSegment ==
    /\ pc = "loop"
    /\ stage_idx <= Len(stages)
    /\ LET stage == stages[stage_idx]
           num_points == Len(stage.points)
           i == seg
       IN  /\ num_points >= 2
           /\ LET phase_duration == PhaseDuration(stage, i)
                  p_prev == stage.points[i]
                  p_curr == stage.points[i + 1]
                  target_value == p_curr[2]
                  pump == PumpMapping(stage, target_value)
                  range_warnings ==
                      IF stage.type = "pressure"
                          THEN validate_pressure_range(target_value, stage.name)
                      ELSE <<>>
                  transition_type == TransitionType(stage, transition_mode)
                  pressure_delta ==
                      IF stage.type = "pressure" THEN Abs(target_value - p_prev[2])
                      ELSE 0
                  duration == calculate_transition_duration(
                                  pressure_delta, transition_type, transition_mode)
                  final == ConvertsOnSegment(i, num_points)
                  converted ==
                      IF final
                          THEN convert_exit_triggers(stage.exit_triggers,
                                                     FinalSegmentStart(stage, i))
                      ELSE <<(<<>>), (<<>>)>>
                  phase == [name |-> SplitName(stage.name, i, num_points - 1),
                            phase |-> PhaseType(stage.key),
                            valve |-> 1,
                            duration |-> phase_duration,
                            transition |-> [type |-> transition_type,
                                            duration |-> duration,
                                            adaptive |-> FALSE],
                            pump |-> pump,
                            targets |-> converted[1]]
              IN  IF PumpSettingsValid(pump)
                      THEN /\ phases' = Append(phases, phase)
                           /\ warned' = warned \o range_warnings
                                          \o StageWarnings(stage.name, converted[2])
                           /\ IF LoopEnds(i, num_points)
                                  THEN stage_idx' = stage_idx + 1 /\ seg' = 1
                              ELSE stage_idx' = stage_idx /\ seg' = i + 1
                           /\ pc' = "loop"
                           /\ UNCHANGED raised
                  ELSE /\ pc' = "error"
                       /\ raised' = [type |-> "ValidationError"]
                       /\ UNCHANGED <<phases, warned, stage_idx, seg>>
    /\ UNCHANGED <<meticulous_data, meticulous, transition_mode, returned, cli,
                   exitVars, resolveVars, validateVars,
                   batchVars>>

\* gaggimate.model_dump(): a dict with the six fields of GaggimateProfile
model_dump(profile, phase_list) ==
    [label |-> profile.name,
     type |-> "pro",
     description |-> <<"Meticulous ID: ">> \o profile.id \o <<"\nAuthor: ">>
                     \o profile.author \o <<"\nOriginal Name: ">> \o profile.name,
     temperature |-> profile.temperature,
     utility |-> FALSE,
     phases |-> phase_list]

\* Lines 501-510: the loop is over, the GaggimateProfile is built and returned
Finish ==
    /\ pc = "loop"
    /\ stage_idx > Len(stages)
    /\ pc' = "done"
    /\ returned' = model_dump(meticulous, phases)
    /\ UNCHANGED <<meticulous_data, meticulous, transition_mode, stage_idx, seg,
                   phases, warned, raised, cli, exitVars, resolveVars, validateVars,
                   batchVars>>

\* Number of items that iterating over obj yields: the keys of a dict, the
\* components of a tuple
IterLen(obj) == Cardinality(DOMAIN obj)

\* cli.py translate, from the call of translate_profile on:
\* `gaggimate_data, translation_warnings = translate_profile(...)` unpacks
\* what was returned (ValueError, caught by no except clause, unless it
\* yields two items); ValidationError becomes TranslationError, which like
\* its subclass UndefinedVariableError ends in typer.Exit(1).
translate ==
    /\ cli = "translating"
    /\ pc \in {"done", "error"}
    /\ cli' = IF pc = "done"
                 THEN IF IterLen(returned) = 2 THEN "success" ELSE "crashed"
             ELSE IF raised.type \in {"ValidationError", "UndefinedVariableError"}
                 THEN "exit1"
             ELSE "crashed"
    /\ UNCHANGED <<meticulous_data, meticulous, transition_mode, pc, stage_idx, seg,
                   phases, warned, raised, returned, exitVars, resolveVars, validateVars,
                   batchVars>>

----------------------------------------------------------------------------
(* The source profiles of the model *)

Trig(ty, cmp, v, rel) == [type |-> ty, comparison |-> cmp, value |-> v, relative |-> rel]

Stage(name, key, ty, points, interp, ts) ==
    [name |-> name, key |-> key, type |-> ty, points |-> points,
     interpolation |-> interp, exit_triggers |-> ts]

TRANSITION_MODES == {"smart", "preserve", "linear", "instant"}

StageTypes == {"power", "flow", "pressure"}

Interpolations == {"linear", "step", "instant", "bezier", "spline", "cubic"}

Extraction == <<"E", "x", "t", "r", "a", "c", "t", "i", "o", "n">>

Keys == {Extraction, Blooming, <<"B", "l", "o", "o", "m">>}

\* Curves that vary the value: no point, 0.05, 0.05 then 3.0, 100
PumpCurves ==
    {<<>>, << <<0, 50>> >>, << <<0, 50>>, <<5000, 3000>> >>, << <<0, 100000>> >>}

PumpStages ==
    {Stage(<<"P">>, key, ty, c, "linear", <<>>) :
        key \in Keys, ty \in StageTypes, c \in PumpCurves}

\* Curves that vary the time stamps (increasing, equal and decreasing ones);
\* the value at position k is 9.0, 3.0, 3.0, 0.05, ...
RampValue(k) == IF k = 1 THEN 9000 ELSE IF k <= 3 THEN 3000 ELSE 50

TimingCurves ==
    UNION {{[k \in 1..n |-> <<t[k], RampValue(k)>>] : t \in [1..n -> {0, 5000}]} :
              n \in 0..MaxPoints}

TimingStages ==
    {Stage(<<"T">>, Extraction, "pressure", c, "linear", <<>>) : c \in TimingCurves}

StageTriggerLists ==
    {<< Trig("time", ">=", 5000, TRUE) >>,
     << Trig("time", ">=", 5000, FALSE) >>,
     << Trig("time", ">=", 0, FALSE) >>,
     << Trig("power", ">=", 4000, FALSE), Trig("weight", ">=", 4000, FALSE),
        Trig("weight", "<=", 2000, FALSE) >>,
     << Trig("pressure", ">=", 4000, FALSE), Trig("pressure", "<=", 2000, FALSE) >>,
     << Trig("weight", ">=", 4000, FALSE), Trig("time", "<", 5000, TRUE),
        Trig("time", ">=", 2000, FALSE) >>,
     << Trig("time", ">=", 5000, TRUE), Trig("weight", ">=", 4000, TRUE),
        Trig("pressure", "<=", 2000, TRUE) >>}

ExitCurves ==
    {<< <<0, 9000>> >>, << <<0, 9000>>, <<5000, 3000>>, <<10000, 3000>> >>}

ExitStages ==
    {Stage(<<"X">>, Extraction, "pressure", c, "linear", ts) :
        c \in ExitCurves, ts \in StageTriggerLists}

TransitionStages ==
    {Stage(<<"R">>, Extraction, ty, c, interp, <<>>) :
        ty \in StageTypes, interp \in Interpolations,
        c \in {<< <<0, 3000>> >>, << <<0, 3000>>, <<5000, 9000>> >>}}

\* Single-point stages of every type with a time trigger (positive and zero)
DurationStages ==
    {Stage(<<"D">>, Extraction, ty, << <<0, 3000>> >>, interp, ts) :
        ty \in StageTypes, interp \in {"linear", "instant"},
        ts \in {<< Trig("time", ">=", 0, FALSE), Trig("time", ">=", 5000, FALSE) >>,
                 << Trig("weight", ">=", 4000, FALSE), Trig("time", "<", 5000, TRUE),
                    Trig("time", ">=", 2000, FALSE) >>}}

\* Names: empty, with an inner blank, one that ends like a split suffix, one
\* with a parenthesis and a digit
StageNames ==
    {<<>>, <<"A", " ", "b">>, <<"X", " ", "(", "1", "/", "2", ")">>, <<"(", "7">>}

NameStages ==
    {Stage(name, Extraction, "pressure", [k \in 1..n |-> <<5000 * (k - 1), 3000>>],
           "linear", <<>>) :
        name \in StageNames, n \in 0..MaxPoints}

StageSet ==
    PumpStages \cup TimingStages \cup ExitStages \cup TransitionStages
    \cup DurationStages \cup NameStages

\* The stages that fill the other positions of a profile
CoreStages ==
    {Stage(<<"A">>, <<"F", "i", "l", "l">>, "power", << <<0, 100000>> >>, "linear",
           << Trig("time", ">=", 5000, FALSE) >>),
     Stage(<<"B">>, Extraction, "pressure",
           << <<0, 9000>>, <<5000, 3000>>, <<10000, 3000>> >>, "bezier",
           << Trig("time", ">=", 2000, TRUE), Trig("piston_position", ">=", 4000, FALSE) >>),
     Stage(<<"C">>, Extraction, "flow", <<>>, "linear", <<>>)}

\* Profiles of at most MaxStages stages: one stage of StageSet at any position,
\* stages of CoreStages at the others.
Profiles ==
    {<<>>} \cup
    UNION {{[k \in 1..n |-> IF k = j THEN s ELSE c[k]] :
               j \in 1..n, s \in StageSet \cup CoreStages, c \in [1..n -> CoreStages]} :
              n \in 1..MaxStages}

\* The JSON document of a profile: the fields translate_profile reads
Document(variables, stage_dicts) ==
    [name |-> <<"N">>, id |-> <<"i", "d">>, author |-> <<"a", "u">>,
     temperature |-> 93000, variables |-> variables, stages |-> stage_dicts]

\* The JSON form of a stage whose values are plain numbers
AsJson(stage) ==
    [name |-> stage.name, key |-> stage.key, type |-> stage.type,
     interpolation |-> stage.interpolation,
     points |-> [j \in DOMAIN stage.points |->
                   <<Num(stage.points[j][1]), Num(stage.points[j][2])>>],
     exit_triggers |-> [k \in DOMAIN stage.exit_triggers |->
                          [stage.exit_triggers[k] EXCEPT !.value = Num(@)]],
     limits |-> <<>>]

Variable(key, value) == [key |-> key, value |-> value]

\* "$" + key
Ref(key) == Str(<<"$">> \o key)

ChainKey(k) == <<"v">> \o Digits(k)

\* v1 = "$v2", v2 = "$v3", ..., vn = 9.0
ChainTable(n) ==
    [k \in 1..n |->
        Variable(ChainKey(k), IF k = n THEN Num(9000) ELSE Ref(ChainKey(k + 1)))]

ChainLengths == {1, 2, 3, MaxChain - 1, MaxChain}

HyphenKey == <<"v", "1", "-", "b">>

\* Variable tables: none, acyclic chains, a self reference, a cycle of two, a
\* chain that ends in an undefined reference, a string value, a key defined
\* twice, a key that is no word, an extra variable no stage refers to
VariableTables ==
    {<<>>}
    \cup {ChainTable(n) : n \in ChainLengths}
    \cup {<<Variable(ChainKey(1), Ref(ChainKey(1)))>>,
          <<Variable(ChainKey(1), Ref(ChainKey(2))),
            Variable(ChainKey(2), Ref(ChainKey(1)))>>,
          <<Variable(ChainKey(1), Str(<<"$", "z", "z">>))>>,
          <<Variable(ChainKey(1), Str(<<"a", "b", "c">>))>>,
          <<Variable(ChainKey(1), Num(3000)), Variable(ChainKey(1), Num(9000))>>,
          <<Variable(HyphenKey, Num(5000))>>,
          <<Variable(ChainKey(1), Num(9000)), Variable(<<"u">>, Num(1000))>>}

\* The values a stage of VariableDocuments holds: a number, "$v1", the
\* undefined "$zz", and "$v1-b"
RefValues == {Num(5000), Ref(ChainKey(1)), Str(<<"$", "z", "z">>), Ref(HyphenKey)}

VarStage(x1, x2, x3, x4) ==
    [name |-> <<"V">>, key |-> <<"E", "x", "t", "r", "a", "c", "t", "i", "o", "n">>,
     type |-> "pressure", interpolation |-> "linear",
     points |-> << <<Num(0), Num(3000)>>, <<x1, x2>> >>,
     exit_triggers |-> << [type |-> "time", comparison |-> ">=", value |-> x3,
                           relative |-> FALSE] >>,
     limits |-> << [type |-> "flow", value |-> x4] >>]

\* Documents with a variable table: one stage that refers to variables,
\* alone or after a stage that does not
VariableDocuments ==
    {Document(t, pre \o <<VarStage(x1, x2, x3, x4)>>) :
        t \in VariableTables,
        x1 \in {Num(5000), Str(<<"$", "z", "z">>)},
        x2 \in RefValues, x3 \in RefValues, x4 \in RefValues,
        pre \in {<<>>,
                 <<AsJson([name |-> <<"C">>,
                           key |-> <<"E", "x", "t", "r", "a", "c", "t", "i", "o", "n">>,
                           type |-> "flow", points |-> <<>>,
                           interpolation |-> "linear", exit_triggers |-> <<>>])>>}}

\* The documents of the model
Documents ==
    {Document(<<>>, [k \in DOMAIN p |-> AsJson(p[k])]) : p \in Profiles}
    \cup VariableDocuments

\* No MeticulousProfile has been built yet
NoProfile ==
    [name |-> <<>>, id |-> <<>>, author |-> <<>>, temperature |-> 0, stages |-> <<>>]

NoException == [type |-> "none"]

InitResolveIdle ==
    /\ document = Document(<<>>, <<>>)
    /\ depth_limit = DEFAULT_MAX_DEPTH
    /\ rpc = "idle"
    /\ given = Document(<<>>, <<>>)
    /\ first_result = Document(<<>>, <<>>)
    /\ resolve_error = NoException

InitValidateIdle ==
    /\ vpc = "idle"
    /\ matches = <<>>

\* No BatchResult has been returned yet
NoBatchResult == [processed |-> 0, successful |-> 0, failed |-> 0, details |-> <<>>]

InitBatchIdle ==
    /\ files = <<>>
    /\ file_idx = 0
    /\ bpc = "idle"
    /\ results = <<>>
    /\ batch_result = NoBatchResult

InitExitIdle ==
    /\ triggers = <<>>
    /\ phase_start_time = 0
    /\ xpc = "idle"
    /\ conflict_warnings = <<>>
    /\ targets = <<>>
    /\ warnings_list = <<>>

Init ==
    /\ meticulous_data \in Documents
    /\ transition_mode \in TRANSITION_MODES
    /\ pc = "start"
    /\ stage_idx = 0
    /\ seg = 0
    /\ phases = <<>>
    /\ warned = <<>>
    /\ meticulous = NoProfile
    /\ raised = NoException
    /\ returned = <<>>
    /\ cli = "translating"
    /\ InitExitIdle
    /\ InitResolveIdle
    /\ InitValidateIdle
    /\ InitBatchIdle

Next ==
    \/ Start
    \/ SinglePointStage
    \/ SplitSegment
    \/ Finish
    \/ translate

Spec == Init /\ [][Next]_vars

----------------------------------------------------------------------------
(* The exit-trigger converter on its own: detect_conflicting_triggers and    *)
(* convert_exit_triggers applied to a trigger list.                          *)

TriggerTypes ==
    {"time", "weight", "pressure", "flow", "piston_position", "power", "user_interaction"}

\* One trigger of every type, the pressure triggers with every comparison and
\* both values ("==" being no operator of OPERATOR_MAP), a relative time
\* trigger and a second weight trigger.
TriggerSet ==
    {Trig(ty, ">=", 4000, FALSE) : ty \in TriggerTypes}
    \cup {Trig("pressure", cmp, v, FALSE) :
             cmp \in {">=", "<=", ">", "<"}, v \in {2000, 4000}}
    \cup {Trig("pressure", "==", 2000, FALSE),
          Trig("time", "<=", 2000, TRUE), Trig("weight", "<", 2000, TRUE)}

TriggerLists == SeqUpTo(TriggerSet, MaxTriggers)

InitTranslateIdle ==
    /\ meticulous_data = Document(<<>>, <<>>)
    /\ transition_mode = "smart"
    /\ pc = "idle"
    /\ stage_idx = 0
    /\ seg = 0
    /\ phases = <<>>
    /\ warned = <<>>
    /\ meticulous = NoProfile
    /\ raised = NoException
    /\ returned = <<>>
    /\ cli = "idle"

InitExit ==
    /\ InitTranslateIdle
    /\ InitResolveIdle
    /\ InitValidateIdle
    /\ InitBatchIdle
    /\ triggers \in TriggerLists
    /\ phase_start_time \in {0, 10000}
    /\ xpc = "call"
    /\ conflict_warnings = <<>>
    /\ targets = <<>>
    /\ warnings_list = <<>>

DetectConflicts ==
    /\ xpc = "call"
    /\ conflict_warnings' = detect_conflicting_triggers(triggers)
    /\ xpc' = "detected"
    /\ UNCHANGED <<triggers, phase_start_time, targets, warnings_list, translateVars, resolveVars,
                   validateVars, batchVars>>

ConvertExitTriggers ==
    /\ xpc = "detected"
    /\ targets' = convert_exit_triggers(triggers, phase_start_time)[1]
    /\ warnings_list' = convert_exit_triggers(triggers, phase_start_time)[2]
    /\ xpc' = "converted"
    /\ UNCHANGED <<triggers, phase_start_time, conflict_warnings, translateVars, resolveVars,
                   validateVars, batchVars>>

NextExit ==
    \/ DetectConflicts
    \/ ConvertExitTriggers

SpecExit == InitExit /\ [][NextExit]_vars

----------------------------------------------------------------------------
(* resolve_variables on its own: applied to a document, then to its result *)

DepthLimits == 0..MaxDepth

InitResolve ==
    /\ InitTranslateIdle
    /\ InitExitIdle
    /\ InitValidateIdle
    /\ InitBatchIdle
    /\ document \in VariableDocuments
    /\ depth_limit \in DepthLimits
    /\ rpc = "call"
    /\ given = document
    /\ first_result = Document(<<>>, <<>>)
    /\ resolve_error = NoException

\* data = resolve_variables(data, max_depth)
Resolve ==
    /\ rpc = "call"
    /\ LET r == resolve_variables(document, depth_limit)
       IN  IF r.raises
               THEN /\ rpc' = "raised"
                    /\ resolve_error' = r.error
                    /\ UNCHANGED <<document, first_result, warned>>
           ELSE /\ rpc' = "resolved"
                /\ document' = r.data
                /\ first_result' = r.data
                /\ warned' = warned \o r.warned
                /\ UNCHANGED resolve_error
    /\ UNCHANGED <<depth_limit, given, translateIdleVars, exitVars,
                   validateVars, batchVars>>

\* resolve_variables applied to what it returned
ResolveAgain ==
    /\ rpc = "resolved"
    /\ LET r == resolve_variables(document, depth_limit)
       IN  IF r.raises
               THEN /\ rpc' = "raised_again"
                    /\ resolve_error' = r.error
                    /\ UNCHANGED <<document, warned>>
           ELSE /\ rpc' = "twice"
                /\ document' = r.data
                /\ warned' = warned \o r.warned
                /\ UNCHANGED resolve_error
    /\ UNCHANGED <<depth_limit, given, first_result, translateIdleVars, exitVars,
                   validateVars, batchVars>>

NextResolve ==
    \/ Resolve
    \/ ResolveAgain

SpecResolve == InitResolve /\ [][NextResolve]_vars

----------------------------------------------------------------------------
(* The validator's phase matching applied to a source profile and the       *)
(* target profile translate_profile produced from it.                       *)

\* Profiles of at most MaxStages stages: one stage of NameStages or CoreStages
\* at any position, stages of CoreStages at the others.
NameProfiles ==
    {<<>>} \cup
    UNION {{[k \in 1..n |-> IF k = j THEN s ELSE c[k]] :
               j \in 1..n, s \in NameStages \cup CoreStages, c \in [1..n -> CoreStages]} :
              n \in 1..MaxStages}

InitValidate ==
    /\ meticulous_data \in
           {Document(<<>>, [k \in DOMAIN p |-> AsJson(p[k])]) : p \in NameProfiles}
    /\ transition_mode \in TRANSITION_MODES
    /\ pc = "start"
    /\ stage_idx = 0
    /\ seg = 0
    /\ phases = <<>>
    /\ warned = <<>>
    /\ meticulous = NoProfile
    /\ raised = NoException
    /\ returned = <<>>
    /\ cli = "idle"
    /\ InitExitIdle
    /\ InitResolveIdle
    /\ InitBatchIdle
    /\ vpc = "wait"
    /\ matches = <<>>

\* matches = match_phases(meticulous_stages, gaggimate_phases), the stages
\* extracted from the source document, the phases from the returned profile
MatchPhases ==
    /\ vpc = "wait"
    /\ pc = "done"
    /\ matches' = match_phases(
                      [k \in DOMAIN meticulous_data.stages |->
                          meticulous_data.stages[k].name],
                      [n \in DOMAIN returned.phases |-> returned.phases[n].name])
    /\ vpc' = "matched"
    /\ UNCHANGED <<translateVars, exitVars, resolveVars, batchVars>>

NextValidate ==
    \/ Start
    \/ SinglePointStage
    \/ SplitSegment
    \/ Finish
    \/ MatchPhases

SpecValidate == InitValidate /\ [][NextValidate]_vars

----------------------------------------------------------------------------
(* translate_profile/batch_processor.py: process_batch applied to a list of *)
(* input files.  A path is the sequence of its components.                  *)

MaxFiles == 3

DEFAULT_OUTPUT_DIR == <<"TranslatedToGaggimate">>

\* file_path.name
PathName(path) == path[Len(path)]

\* str(path)
PathStr(path) == Join([k \in DOMAIN path |-> <<path[k]>>], <<"/">>)

\* An input path with what the file system holds for it: whether the file
\* exists, whether its text is JSON, the document the text spells, and
\* whether the output directory takes a file of its name
File(path, exists, json_ok, doc, writable) ==
    [path |-> path, exists |-> exists, json_ok |-> json_ok, document |-> doc,
     writable |-> writable]

BatchStage(name, points) ==
    AsJson(Stage(name, Extraction, "pressure", points, "linear",
                 << Trig("time", ">=", 5000, FALSE) >>))

\* The input files: a profile of one single-point stage, a profile of the
\* same file name in another directory whose stage is split, a profile with
\* an undefined variable reference, a profile whose second stage asks for
\* 100 bar, a path with no file, a file that is no JSON, and a profile
\* whose output cannot be written
BatchFiles ==
    {File(<<"in", "a.json">>, TRUE, TRUE,
          Document(<<>>, <<BatchStage(<<"S">>, << <<0, 3000>> >>)>>), TRUE),
     File(<<"other", "a.json">>, TRUE, TRUE,
          Document(<<>>, <<BatchStage(<<"S">>, << <<0, 9000>>, <<5000, 3000>>,
                                                  <<10000, 3000>> >>)>>), TRUE),
     File(<<"in", "u.json">>, TRUE, TRUE,
          Document(<<Variable(ChainKey(1), Num(9000))>>,
                   <<VarStage(Num(5000), Ref(ChainKey(1)), Str(<<"$", "z", "z">>),
                              Num(5000))>>), TRUE),
     File(<<"in", "r.json">>, TRUE, TRUE,
          Document(<<>>, <<BatchStage(<<"S">>, << <<0, 3000>> >>),
                           BatchStage(<<"R">>, << <<0, 100000>> >>)>>), TRUE),
     File(<<"in", "m.json">>, FALSE, FALSE, Document(<<>>, <<>>), TRUE),
     File(<<"in", "g.json">>, TRUE, FALSE, Document(<<>>, <<>>), TRUE),
     File(<<"in", "w.json">>, TRUE, TRUE,
          Document(<<>>, <<BatchStage(<<"S">>, << <<0, 3000>> >>)>>), FALSE)}

\* core.py read_meticulous_json: the parsed document, or the exception
read_meticulous_json(file) ==
    IF ~file.exists
        THEN [raises |-> TRUE,
              error |-> [type |-> "FileNotFoundTranslationError",
                         file_path |-> PathStr(file.path)]]
    ELSE IF ~file.json_ok
        THEN [raises |-> TRUE,
              error |-> [type |-> "InvalidJSONSyntaxError",
                         file_path |-> PathStr(file.path)]]
    ELSE [raises |-> FALSE, data |-> file.document]

\* core.py write_gaggimate_json: the path written, directory / name, or the
\* OSError of mkdir or write_bytes
write_gaggimate_json(output_path, output_dir, writable) ==
    IF writable
        THEN [raises |-> FALSE, file_path |-> output_dir \o <<PathName(output_path)>>]
    ELSE [raises |-> TRUE, error |-> [type |-> "OSError"]]

\* str(e).  The texts of pydantic's ValidationError and of the operating
\* system's error are one opaque piece each.
ExceptionStr(e) ==
    CASE e.type = "FileNotFoundTranslationError" ->
             <<"Input file not found: ">> \o e.file_path
      [] e.type = "InvalidJSONSyntaxError" ->
             <<"Invalid JSON syntax in ">> \o e.file_path
      [] e.type = "UndefinedVariableError" ->
             <<"Undefined variable: ">> \o e.variable_name
      [] e.type = "ValueError" ->
             <<"Variable resolution exceeded max depth ">> \o Digits(e.max_depth)
      [] e.type = "ValidationError" -> <<"ValidationError">>
      [] e.type = "OSError" -> <<"OSError">>

\* The entry appended when the three calls returned
SuccessEntry(file_path, output_path) ==
    [file |-> PathName(file_path), status |-> "success",
     output |-> PathStr(output_path), input_path |-> PathStr(file_path)]

\* The entry appended by `except Exception as e`
FailedEntry(file_path, e) ==
    [file |-> PathName(file_path), status |-> "failed",
     error |-> ExceptionStr(e), input_path |-> PathStr(file_path)]

\* sum(1 for r in results if r["status"] == "success")
Successful(entries) ==
    Cardinality({k \in DOMAIN entries : entries[k].status = "success"})

BatchResult(entries) ==
    [processed |-> Len(entries), successful |-> Successful(entries),
     failed |-> Len(entries) - Successful(entries), details |-> entries]

\* Where the loop over n files stands once the except clause has recorded
\* the failure of the file at position idx
AfterExceptionStop(idx, n) == n + 1

AfterException(idx, n) == idx + 1

InitBatch ==
    /\ InitTranslateIdle
    /\ InitExitIdle
    /\ InitResolveIdle
    /\ InitValidateIdle
    /\ files \in SeqUpTo(BatchFiles, MaxFiles)
    /\ file_idx = 1
    /\ bpc = "read"
    /\ results = <<>>
    /\ batch_result = NoBatchResult

\* meticulous_data = read_meticulous_json(file_path), and the call of
\* translate_profile(meticulous_data, transition_mode=transition_mode)
BatchRead ==
    /\ bpc = "read"
    /\ file_idx <= Len(files)
    /\ LET r == read_meticulous_json(files[file_idx])
       IN  IF r.raises
               THEN /\ results' = Append(results, FailedEntry(files[file_idx].path, r.error))
                    /\ file_idx' = AfterException(file_idx, Len(files))
                    /\ UNCHANGED <<bpc, translateVars>>
           ELSE /\ meticulous_data' = r.data
                /\ pc' = "start"
                /\ stage_idx' = 0
                /\ seg' = 0
                /\ phases' = <<>>
                /\ meticulous' = NoProfile
                /\ raised' = NoException
                /\ returned' = <<>>
                /\ bpc' = "translate"
                /\ UNCHANGED <<transition_mode, warned, cli, results, file_idx>>
    /\ UNCHANGED <<files, batch_result, exitVars, resolveVars, validateVars>>

\* translate_profile has returned or raised: write_gaggimate_json and the
\* success entry, or the entry of the except clause
BatchRecord ==
    /\ bpc = "translate"
    /\ pc \in {"done", "error"}
    /\ LET file == files[file_idx]
           w == write_gaggimate_json(<<PathName(file.path)>>, DEFAULT_OUTPUT_DIR,
                                     file.writable)
       IN  IF pc = "error"
               THEN /\ results' = Append(results, FailedEntry(file.path, raised))
                    /\ file_idx' = AfterException(file_idx, Len(files))
           ELSE IF w.raises
               THEN /\ results' = Append(results, FailedEntry(file.path, w.error))
                    /\ file_idx' = AfterException(file_idx, Len(files))
           ELSE /\ results' = Append(results, SuccessEntry(file.path, w.file_path))
                /\ file_idx' = file_idx + 1
    /\ pc' = "idle"
    /\ bpc' = "read"
    /\ UNCHANGED <<meticulous_data, transition_mode, stage_idx, seg, phases, warned,
                   meticulous, raised, returned, cli, files, batch_result,
                   exitVars, resolveVars, validateVars>>

\* The loop is over: the counts and the BatchResult
BatchFinish ==
    /\ bpc = "read"
    /\ file_idx > Len(files)
    /\ batch_result' = BatchResult(results)
    /\ bpc' = "finished"
    /\ UNCHANGED <<files, file_idx, results, translateVars, exitVars, resolveVars,
                   validateVars>>

NextBatch ==
    \/ BatchRead
    \/ Start
    \/ SinglePointStage
    \/ SplitSegment
    \/ Finish
    \/ BatchRecord
    \/ BatchFinish

SpecBatch == InitBatch /\ [][NextBatch]_vars

\* The loop is sequential code: a step that can be taken is taken.  Start
\* can be taken exactly when pc = "start", which spells out its fairness.
SpecBatchLive ==
    /\ InitBatch
    /\ [][NextBatch]_vars
    /\ WF_vars(BatchRead)
    /\ ([]<>(pc # "start") \/ []<><<Start>>_vars)
    /\ WF_vars(SinglePointStage)
    /\ WF_vars(SplitSegment)
    /\ WF_vars(Finish)
    /\ WF_vars(BatchRecord)
    /\ WF_vars(BatchFinish)

----------------------------------------------------------------------------
(* Vocabulary of the properties *)

SupportedTypes == {"time", "weight", "pressure", "flow"}

\* The target type documented for a supported trigger type, and back
TargetTypeFor(ty) == IF ty = "weight" THEN "volumetric" ELSE ty

TriggerTypeFor(tt) == IF tt = "volumetric" THEN "weight" ELSE tt

OperatorFor(cmp) ==
    IF cmp = ">=" THEN "gte" ELSE IF cmp = "<=" THEN "lte"
    ELSE IF cmp = ">" THEN "gt" ELSE IF cmp = "<" THEN "lt" ELSE "gte"

\* Position of the first trigger of type ty in ts (0 when there is none)
FirstIndex(ts, ty) ==
    IF \E k \in DOMAIN ts : ts[k].type = ty
        THEN CHOOSE k \in DOMAIN ts :
                 /\ ts[k].type = ty
                 /\ \A j \in 1..(k - 1) : ts[j].type # ty
    ELSE 0

SupportedPresent(ts) == {ts[k].type : k \in DOMAIN ts} \cap SupportedTypes

CountWhere(s, P(_)) == Cardinality({k \in DOMAIN s : P(s[k])})

\* The targets are one per distinct supported type of ts, in first-occurrence order
TargetsMatchTypes(tg, ts) ==
    /\ Len(tg) = Cardinality(SupportedPresent(ts))
    /\ {tg[k].type : k \in DOMAIN tg} = {TargetTypeFor(ty) : ty \in SupportedPresent(ts)}
    /\ \A j, k \in DOMAIN tg :
           j < k => FirstIndex(ts, TriggerTypeFor(tg[j].type))
                      < FirstIndex(ts, TriggerTypeFor(tg[k].type))

----------------------------------------------------------------------------
(* Properties of the exit-trigger converter (checked under SpecExit) *)

\* C6: convert_exit_triggers emits exactly one target per distinct supported
\* type (time, weight, pressure, flow) present in the list, none for an
\* unsupported type, in the order in which each type first occurs; weight
\* becomes volumetric, the other three types keep their name.
C6_OneTargetPerSupportedType ==
    xpc = "converted" => TargetsMatchTypes(targets, triggers)

C6_Witness ==
    /\ xpc = "converted"
    /\ Len(triggers) = 3
    /\ triggers[1].type \in UNSUPPORTED_TYPES
    /\ triggers[2].type = "weight"
    /\ triggers[3].type = "time"
    /\ Len(targets) = 2
    /\ targets[1].type = "volumetric"
    /\ targets[2].type = "time"

\* C7: every trigger is accounted for exactly once: #targets + #[Unsupported]
\* warnings + #duplicate warnings = #triggers, one [Unsupported] warning per
\* unsupported trigger and one duplicate warning per repeated supported type;
\* the target kept for a type carries the operator (>= gte, <= lte, > gt,
\* < lt, anything else gte) and the value of the FIRST trigger of that type
\* (for a relative time trigger: that value counted from phase_start_time).
C7_EveryTriggerAccountedFirstKept ==
    xpc = "converted" =>
        LET nUnsupported == CountWhere(warnings_list, LAMBDA w : w.tag = "Unsupported")
            nDuplicate == CountWhere(warnings_list, LAMBDA w : w.kind = "duplicate")
            nSupported == CountWhere(triggers, LAMBDA t : t.type \in SupportedTypes)
        IN  /\ Len(targets) + nUnsupported + nDuplicate = Len(triggers)
            /\ nUnsupported = Len(triggers) - nSupported
            /\ nDuplicate = nSupported - Cardinality(SupportedPresent(triggers))
            /\ \A k \in DOMAIN targets :
                 LET first == triggers[FirstIndex(triggers, TriggerTypeFor(targets[k].type))]
                 IN  /\ targets[k].operator = OperatorFor(first.comparison)
                     /\ targets[k].value =
                            IF first.type = "time" /\ first.relative
                                THEN phase_start_time + first.value
                            ELSE first.value

C7_Witness ==
    /\ xpc = "converted"
    /\ Len(triggers) = 3
    /\ triggers[1] = Trig("pressure", "<=", 2000, FALSE)
    /\ triggers[2] = Trig("pressure", ">=", 4000, FALSE)
    /\ triggers[3].type = "power"
    /\ targets = <<[type |-> "pressure", operator |-> "lte", value |-> 2000]>>
    /\ CountWhere(warnings_list, LAMBDA w : w.kind = "duplicate") = 1
    /\ CountWhere(warnings_list, LAMBDA w : w.tag = "Unsupported") = 1

SameDirection(c1, c2) ==
    \/ c1 \in {">=", ">"} /\ c2 \in {">=", ">"}
    \/ c1 \in {"<=", "<"} /\ c2 \in {"<=", "<"}

\* C8: for two triggers of the same type, (>= X) followed by (<= Y),
\* detect_conflicting_triggers returns exactly one conflict warning when
\* X > Y and none when X <= Y; two triggers of the same type with the same
\* comparison direction never produce a conflict warning.
C8_GeLeConflictIffXGreaterY ==
    (xpc = "detected" /\ Len(triggers) = 2 /\ triggers[1].type = triggers[2].type) =>
        /\ (triggers[1].comparison = ">=" /\ triggers[2].comparison = "<=") =>
               Len(conflict_warnings) = IF triggers[1].value > triggers[2].value THEN 1 ELSE 0
        /\ SameDirection(triggers[1].comparison, triggers[2].comparison) =>
               conflict_warnings = <<>>

C8_Witness ==
    /\ xpc = "detected"
    /\ triggers = <<Trig("pressure", ">=", 4000, FALSE), Trig("pressure", "<=", 2000, FALSE)>>
    /\ Len(conflict_warnings) = 1

C8_WitnessNoConflict ==
    /\ xpc = "detected"
    /\ triggers = <<Trig("pressure", ">=", 2000, FALSE), Trig("pressure", "<=", 2000, FALSE)>>
    /\ conflict_warnings = <<>>

----------------------------------------------------------------------------
(* Vocabulary of the properties of translate_profile *)

\* Number of phases a stage is documented to contribute
NumPhases(stage) == Max(1, Len(stage.points) - 1)

\* Number of phases documented for the stages before position k
Offset(k) == SumSeq([j \in 1..(k - 1) |-> NumPhases(stages[j])])

\* Segment i of stage k has been emitted
Emitted(k, i) == pc \in {"loop", "done"} /\ Offset(k) + i <= Len(phases)

PhaseOf(k, i) == phases[Offset(k) + i]

StagePositions == 1..Len(stages)

Segments(k) == 1..NumPhases(stages[k])

\* Terminal point value of segment i (0 when the stage has no points)
TerminalValue(stage, i) ==
    IF Len(stage.points) = 0 THEN 0
    ELSE IF Len(stage.points) = 1 THEN stage.points[1][2]
    ELSE stage.points[i + 1][2]

LowerChar(c) ==
    IF \E k \in DOMAIN UpperAlphabet : UpperAlphabet[k] = c
        THEN LowerAlphabet[CHOOSE k \in DOMAIN UpperAlphabet : UpperAlphabet[k] = c]
    ELSE c

\* Case folding of a key
Lower(s) == [k \in DOMAIN s |-> LowerChar(s[k])]

BloomWord == <<"b", "l", "o", "o", "m">>

----------------------------------------------------------------------------
(* Properties of translate_profile (checked under Spec) *)

\* C1: the output phase list is the concatenation, in source stage order, of
\* one block per stage: N-1 consecutive phases (one per consecutive point pair,
\* in point order) for a stage with N >= 2 points, one phase for a stage with
\* N <= 1 points; the total is the sum over stages of max(1, N-1).
C1_PhaseBlocksInStageOrder ==
    /\ pc = "done" => Len(phases) = Offset(Len(stages) + 1)
    /\ pc = "loop" => Len(phases) = Offset(stage_idx) + (seg - 1)
    /\ \A k \in StagePositions : \A i \in Segments(k) :
           Emitted(k, i) =>
               PhaseOf(k, i).name =
                   IF Len(stages[k].points) >= 2
                       THEN SplitName(stages[k].name, i, Len(stages[k].points) - 1)
                   ELSE stages[k].name

C1_Witness ==
    /\ pc = "done"
    /\ Len(stages) = 2
    /\ Len(stages[1].points) = 3
    /\ Len(stages[2].points) = 0
    /\ stages[1].name # stages[2].name
    /\ Len(phases) = 3
    /\ phases[3].name = stages[2].name

\* C2: for a stage with N >= 2 points the i-th emitted phase lasts
\* time(p[i]) - time(p[i-1]) when that is positive and 0.1 s when it is zero
\* or negative; so every phase of a multi-point stage has duration > 0.
C2_SegmentDuration ==
    \A k \in StagePositions : \A i \in Segments(k) :
        (Emitted(k, i) /\ Len(stages[k].points) >= 2) =>
            LET d == stages[k].points[i + 1][1] - stages[k].points[i][1]
            IN  /\ PhaseOf(k, i).duration = IF d > 0 THEN d ELSE 100
                /\ PhaseOf(k, i).duration > 0

C2_Witness ==
    /\ pc = "done"
    /\ Len(stages) >= 1
    /\ Len(stages[1].points) = 3
    /\ stages[1].points[1][1] = 0
    /\ stages[1].points[2][1] = 5000
    /\ stages[1].points[3][1] = 0
    /\ phases[1].duration = 5000
    /\ phases[2].duration = 100

\* C3: for a stage whose key does not begin with "bloom" (case-insensitively),
\* with v the segment's terminal point value (0 without points): power gives
\* target pressure, pressure v/10, flow 10; flow gives target flow, flow v,
\* pressure 12; pressure gives target pressure, pressure v, flow 10; the same
\* for single-point and multi-point stages.
C3_PumpMappingByStageType ==
    \A k \in StagePositions : \A i \in Segments(k) :
        (Emitted(k, i) /\ ~StartsWith(Lower(stages[k].key), BloomWord)) =>
            LET v == TerminalValue(stages[k], i)
                pump == PhaseOf(k, i).pump
            IN  /\ stages[k].type = "power" =>
                       pump.target = "pressure" /\ pump.pressure * 10 = v /\ pump.flow = 10000
                /\ stages[k].type = "flow" =>
                       pump.target = "flow" /\ pump.flow = v /\ pump.pressure = 12000
                /\ stages[k].type = "pressure" =>
                       pump.target = "pressure" /\ pump.pressure = v /\ pump.flow = 10000

C3_Witness ==
    /\ pc = "done"
    /\ Len(stages) = 2
    /\ stages[1].type = "flow" /\ stages[1].key = Extraction
    /\ Len(stages[1].points) = 2
    /\ stages[2].type = "power" /\ ~StartsWith(Lower(stages[2].key), BloomWord)
    /\ Len(stages[2].points) = 1
    /\ phases[1].pump = [target |-> "flow", flow |-> 9000, pressure |-> 12000]
    /\ phases[2].pump = [target |-> "pressure", pressure |-> 10000, flow |-> 10000]

\* C4: the bloom override comes first and does not depend on stage.type: for
\* every stage whose key is, case-insensitively, exactly "bloom" or "blooming",
\* whatever its type and terminal value v, every emitted segment has pump
\* target pressure, pressure max(v, 2.0) and flow 0.
C4_BloomOverrideAnyType ==
    \A k \in StagePositions : \A i \in Segments(k) :
        (pc = "done" /\ Lower(stages[k].key) \in {BloomWord, Blooming}) =>
            PhaseOf(k, i).pump =
                [target |-> "pressure",
                 pressure |-> Max(TerminalValue(stages[k], i), 2000),
                 flow |-> 0]

\* Number of same-type pairs of a trigger list
SameTypePairs(ts) ==
    Cardinality({pr \in (DOMAIN ts) \X (DOMAIN ts) :
                    pr[1] < pr[2] /\ ts[pr[1]].type = ts[pr[2]].type})

\* Number of warnings.warn calls of the given kinds made so far
Warned(kinds) == CountWhere(warned, LAMBDA w : w.warning.kind \in kinds)

\* C5: exit-trigger conversion is applied once per stage and its result is
\* attached only to the last phase of the stage: for N >= 2 points, phases
\* 1..N-2 have no targets and phase N-1 carries the converted targets; the
\* stage's trigger warnings are emitted once, not once per segment.
C5_TargetsOnLastPhaseOnly ==
    pc = "done" =>
        /\ \A k \in StagePositions : \A i \in Segments(k) :
               IF i < NumPhases(stages[k])
                   THEN PhaseOf(k, i).targets = <<>>
               ELSE TargetsMatchTypes(PhaseOf(k, i).targets, stages[k].exit_triggers)
        /\ Warned({"unsupported"}) =
               SumSeq([k \in StagePositions |->
                         CountWhere(stages[k].exit_triggers,
                                    LAMBDA t : t.type \notin SupportedTypes)])
        /\ Warned({"duplicate"}) =
               SumSeq([k \in StagePositions |->
                         CountWhere(stages[k].exit_triggers,
                                    LAMBDA t : t.type \in SupportedTypes)
                         - Cardinality(SupportedPresent(stages[k].exit_triggers))])
        /\ Warned({"conflict"}) <=
               SumSeq([k \in StagePositions |-> SameTypePairs(stages[k].exit_triggers)])

C5_Witness ==
    /\ pc = "done"
    /\ Len(stages) >= 1
    /\ Len(stages[1].points) = 3
    /\ Len(stages[1].exit_triggers) = 3
    /\ stages[1].exit_triggers[1].type = "power"
    /\ phases[1].targets = <<>>
    /\ Len(phases[2].targets) = 1
    /\ Warned({"unsupported"}) >= 1
    /\ Warned({"duplicate"}) >= 1

\* Elapsed time at the start of stage k: the durations of the phases emitted
\* for the stages before it
StageStartTime(k) == SumSeq([j \in 1..Offset(k) |-> phases[j].duration])

\* C9: at every position of the profile a relative time trigger is exported
\* with value S + trigger value, S being the elapsed time accumulated at the
\* start of its stage (0 for the first stage), however many segments the
\* stage is split into.
C9_RelativeTimeFromStageStart ==
    pc = "done" =>
        \A k \in StagePositions :
            LET ts == stages[k].exit_triggers
                f == FirstIndex(ts, "time")
                last == PhaseOf(k, NumPhases(stages[k]))
            IN  (f > 0 /\ ts[f].relative) =>
                    \E n \in DOMAIN last.targets :
                        /\ last.targets[n].type = "time"
                        /\ last.targets[n].value = StageStartTime(k) + ts[f].value

\* C10: every phase of a flow stage has transition type "instant", in each of
\* the four transition modes and for every interpolation, single-point and
\* multi-point stages alike.
C10_FlowStagesAlwaysInstant ==
    pc = "done" =>
        \A k \in StagePositions : \A i \in Segments(k) :
            stages[k].type = "flow" => PhaseOf(k, i).transition.type = "instant"

\* The transition type documented for a stage that is not a flow stage
ExpectedTransition(mode, interpolation) ==
    IF mode = "smart"
        THEN IF interpolation \in {"linear", "step"} THEN "linear"
             ELSE IF interpolation = "instant" THEN "instant"
             ELSE IF interpolation \in {"bezier", "spline"} THEN "ease-in-out"
             ELSE "linear"
    ELSE IF mode = "preserve"
        THEN IF interpolation \in {"linear", "step", "instant"} THEN "linear"
             ELSE IF interpolation = "bezier" THEN "bezier"
             ELSE IF interpolation = "spline" THEN "spline"
             ELSE "linear"
    ELSE IF mode = "linear" THEN "linear"
    ELSE "instant"

C12_InstantTransitionHasZeroDuration ==
    pc = "done" =>
        \A n \in DOMAIN phases :
            phases[n].transition.type = "instant" => phases[n].transition.duration = 0

\* C13: a stage with at most one point and at least one time trigger yields
\* a phase whose duration is the value of the first time trigger of the list
\* (0.1 s when that value is <= 0), whatever the stage type, the interpolation
\* and the transition mode.
C13_TimeTriggerIsDuration ==
    \A k \in StagePositions :
        LET ts == stages[k].exit_triggers
            f == FirstIndex(ts, "time")
        IN  (Emitted(k, 1) /\ Len(stages[k].points) <= 1 /\ f > 0) =>
                PhaseOf(k, 1).duration = IF ts[f].value <= 0 THEN 100 ELSE ts[f].value

C13_Witness ==
    /\ pc = "done"
    /\ Len(stages) >= 1
    /\ stages[1].type = "flow"
    /\ Len(stages[1].points) = 1
    /\ Len(stages[1].exit_triggers) = 3
    /\ stages[1].exit_triggers[1].type = "weight"
    /\ stages[1].exit_triggers[2] = Trig("time", "<", 5000, TRUE)
    /\ stages[1].exit_triggers[3] = Trig("time", ">=", 2000, FALSE)
    /\ phases[1].duration = 5000

\* The values of the document, stage by stage: the points (time, then
\* value), the exit triggers, the limits
ValuesInDocumentOrder(doc) ==
    Flatten([i \in DOMAIN doc.stages |->
        Flatten([j \in DOMAIN doc.stages[i].points |->
                    <<[at |-> <<"points", i - 1, j - 1, 0>>,
                       value |-> doc.stages[i].points[j][1]],
                      [at |-> <<"points", i - 1, j - 1, 1>>,
                       value |-> doc.stages[i].points[j][2]]>>])
        \o [k \in DOMAIN doc.stages[i].exit_triggers |->
               [at |-> <<"exit_triggers", i - 1, k - 1, 0>>,
                value |-> doc.stages[i].exit_triggers[k].value]]
        \o [k \in DOMAIN doc.stages[i].limits |->
               [at |-> <<"limits", i - 1, k - 1, 0>>,
                value |-> doc.stages[i].limits[k].value]]])

\* The structural location of a value, as text
LocationText(at) ==
    IF at[1] = "points"
        THEN <<"stages[">> \o Digits(at[2]) \o <<"].dynamics.points[">>
             \o Digits(at[3]) \o (IF at[4] = 0 THEN <<"][0]">> ELSE <<"][1]">>)
    ELSE IF at[1] = "exit_triggers"
        THEN <<"stages[">> \o Digits(at[2]) \o <<"].exit_triggers[">>
             \o Digits(at[3]) \o <<"].value">>
    ELSE <<"stages[">> \o Digits(at[2]) \o <<"].limits[">>
         \o Digits(at[3]) \o <<"].value">>

\* The strings "$name" of the document whose name is no key of the table
DanglingReferences(doc) ==
    SelectSeq(ValuesInDocumentOrder(doc),
              LAMBDA e : /\ e.value.kind = "str"
                         /\ Len(e.value.val) >= 1
                         /\ e.value.val[1] = "$"
                         /\ \A v \in Range(doc.variables) :
                                <<"$">> \o v.key # e.value.val)

\* C14: when, after variable resolution, a point value, trigger value or
\* limit value is still a string "$name" with no variable of that name,
\* translate_profile raises one UndefinedVariableError and emits no phase and
\* no result; the error lists every such reference and its location, one
\* entry per occurrence, in document order.  When there is no such value no
\* UndefinedVariableError is raised.
C14_UndefinedVariableError ==
    (pc \in {"loop", "done", "error"} /\ raised.type # "ValueError") =>
        LET dangling == DanglingReferences(meticulous_data)
        IN  IF dangling # <<>>
                THEN /\ pc = "error"
                     /\ raised.type = "UndefinedVariableError"
                     /\ phases = <<>>
                     /\ returned = <<>>
                     /\ raised.variable_name =
                            Join([k \in DOMAIN dangling |-> dangling[k].value.val],
                                 <<", ">>)
                     /\ raised.location =
                            Join([k \in DOMAIN dangling |-> LocationText(dangling[k].at)],
                                 <<"; ">>)
            ELSE raised.type # "UndefinedVariableError"

C14_Witness ==
    /\ pc = "error"
    /\ raised.type = "UndefinedVariableError"
    /\ meticulous_data.variables = ChainTable(2)
    /\ Len(meticulous_data.stages) = 2
    /\ meticulous_data.stages[2].points[2] = <<Str(<<"$", "z", "z">>), Num(9000)>>
    /\ meticulous_data.stages[2].exit_triggers[1].value = Str(<<"$", "z", "z">>)
    /\ meticulous_data.stages[2].limits[1].value = Num(5000)
    /\ raised.variable_name = <<"$", "z", "z", ", ", "$", "z", "z">>
    /\ raised.location =
           <<"stages[", "1", "].dynamics.points[", "1", "][0]", "; ",
             "stages[", "1", "].exit_triggers[", "0", "].value">>

\* A value of the document refers to the variable key
RefersTo(value, key) == value.kind = "str" /\ value.val = <<"$">> \o key

\* The table is the acyclic chain v1 = "$v2", ..., vn = number of n
\* variables, 2 <= n <= 10
IsShortChain(table) ==
    \E n \in 2..DEFAULT_MAX_DEPTH : n <= MaxChain /\ table = ChainTable(n)

\* C16: a profile whose table defines a variable by reference to another one
\* (an acyclic chain within the depth ceiling) and whose stages refer to it
\* translates successfully, the reference being replaced by the chain's
\* terminal number.  Stated for the step that resolves and loads the document:
\* every value of the stage is a number or "$v1", the point value is "$v1".
C16_ChainedVariableTranslates ==
    [][(/\ pc = "start"
        /\ IsShortChain(meticulous_data.variables)
        /\ \A e \in Range(ValuesInDocumentOrder(meticulous_data)) :
               e.value.kind = "num" \/ RefersTo(e.value, ChainKey(1))
        /\ \E e \in Range(ValuesInDocumentOrder(meticulous_data)) :
               RefersTo(e.value, ChainKey(1)))
       => (/\ pc' = "loop"
           /\ \A i \in DOMAIN meticulous_data.stages :
                  \A j \in DOMAIN meticulous_data.stages[i].points :
                      RefersTo(meticulous_data.stages[i].points[j][2], ChainKey(1))
                          => meticulous'.stages[i].points[j][2] = 9000)]_vars

\* C18: diagnostics never abort the translation: for every pressure stage
\* with a curve value v outside 1.0-10.0 bar, below or above, a pressure-range
\* warning for that stage is emitted and translate_profile completes with a
\* result.
C18_DiagnosticsNeverAbort ==
    (pc \in {"done", "error"} /\ meticulous # NoProfile) =>
        \A k \in StagePositions : \A i \in Segments(k) :
            LET v == TerminalValue(stages[k], i)
            IN  (stages[k].type = "pressure" /\ (v < 1000 \/ v > 10000)) =>
                    /\ pc = "done"
                    /\ \E n \in DOMAIN warned :
                           /\ warned[n].stage = stages[k].name
                           /\ warned[n].warning.kind = "pressure_range"
                           /\ warned[n].warning.pressure = v

\* C19: a successful call of translate_profile returns a pair (result,
\* warnings) that its callers destructure, so the translate command, after a
\* successful translation, writes the output file and reports success.
C19_ReturnsPairAndCommandSucceeds ==
    pc = "done" =>
        /\ IterLen(returned) = 2
        /\ cli # "translating" => cli = "success"

\* C20: for a stage named S (no leading or trailing whitespace) with N >= 2
\* points the i-th phase is named S + " (i/(N-1))", and parse_split_suffix of
\* that name is (S, i, N-1); a stage with N <= 1 points yields a phase named S.
C20_SplitSuffixParsesBack ==
    \A k \in StagePositions : \A i \in Segments(k) :
        LET S == stages[k].name
            N == Len(stages[k].points)
        IN  (Emitted(k, i) /\ Strip(S) = S) =>
                IF N >= 2
                    THEN /\ PhaseOf(k, i).name =
                                S \o <<" ", "(">> \o Digits(i) \o <<"/">>
                                  \o Digits(N - 1) \o <<")">>
                         /\ parse_split_suffix(PhaseOf(k, i).name) = <<S, i, N - 1>>
                ELSE PhaseOf(k, i).name = S

C20_Witness ==
    /\ pc = "done"
    /\ Len(stages) >= 1
    /\ stages[1].name = <<"X", " ", "(", "1", "/", "2", ")">>
    /\ Len(stages[1].points) = 3
    /\ phases[2].name = <<"X", " ", "(", "1", "/", "2", ")", " ", "(", "2", "/", "2", ")">>
    /\ parse_split_suffix(phases[2].name) = <<stages[1].name, 2, 2>>

----------------------------------------------------------------------------
(* Properties of resolve_variables (checked under SpecResolve) *)

\* The variable a string "$name..." refers to: the word after the "$"
ReferredKey(value) ==
    IF value.kind = "str" /\ Len(value.val) >= 2 /\ value.val[1] = "$"
        THEN WordPrefix(Tail(value.val))
    ELSE <<>>

Defines(table, key) == key # <<>> /\ \E k \in DOMAIN table : table[k].key = key

\* The value the table gives a key (the last definition counts)
ValueOf(table, key) ==
    LET last == CHOOSE k \in DOMAIN table :
                    table[k].key = key /\ \A j \in DOMAIN table : table[j].key = key => j <= k
    IN  table[last].value

\* The chain of a reference to a defined variable: the number of variables it
\* passes through and the value it ends in; cyclic when a variable recurs
RECURSIVE Chain(_, _, _)
Chain(table, key, visited) ==
    IF key \in visited THEN [cyclic |-> TRUE, through |-> 0, terminal |-> Num(0)]
    ELSE LET value == ValueOf(table, key)
         IN  IF Defines(table, ReferredKey(value))
                 THEN LET rest == Chain(table, ReferredKey(value), visited \cup {key})
                      IN  [rest EXCEPT !.through = @ + 1]
             ELSE [cyclic |-> FALSE, through |-> 1, terminal |-> value]

IsReference(table, value) == Defines(table, ReferredKey(value))

\* C15: resolve_variables terminates on every document and table, also with
\* self-referencing and mutually referencing variables: a reference whose
\* chain is cyclic or passes through more than max_depth variables makes it
\* fail with an error that names max_depth; when every reference has an
\* acyclic chain through at most max_depth variables, each is replaced by its
\* chain's terminal value and every other value is left as it was.
C15_ResolutionEndsOrNamesDepth ==
    rpc \in {"resolved", "raised"} =>
          LET table == given.variables
              before == ValuesInDocumentOrder(given)
              after == ValuesInDocumentOrder(document)
              TooDeep(value) ==
                  /\ IsReference(table, value)
                  /\ LET c == Chain(table, ReferredKey(value), {})
                     IN  c.cyclic \/ c.through > depth_limit
          IN  IF \E n \in DOMAIN before : TooDeep(before[n].value)
                  THEN /\ rpc = "raised"
                       /\ resolve_error.max_depth = depth_limit
                       /\ document = given
              ELSE /\ rpc = "resolved"
                   /\ Len(after) = Len(before)
                   /\ \A n \in DOMAIN before :
                          after[n].value =
                              IF IsReference(table, before[n].value)
                                  THEN Chain(table, ReferredKey(before[n].value), {}).terminal
                              ELSE before[n].value

C15_Witness ==
    /\ rpc = "raised"
    /\ given.variables = <<Variable(ChainKey(1), Ref(ChainKey(1)))>>
    /\ depth_limit = 2
    /\ resolve_error = [type |-> "ValueError", max_depth |-> 2]
    /\ \E n \in DOMAIN ValuesInDocumentOrder(given) :
           ValuesInDocumentOrder(given)[n].value = Ref(ChainKey(1))

\* C17: resolve_variables is idempotent: applied to its own result it
\* succeeds and returns a document identical to that result (stages, points,
\* trigger values, limit values and variable table).
C17_ResolveIdempotent ==
    /\ rpc # "raised_again"
    /\ rpc = "twice" => document = first_result

C17_Witness ==
    /\ rpc = "twice"
    /\ given.variables = ChainTable(2)
    /\ given.stages[1].points[2][2] = Ref(ChainKey(1))
    /\ first_result.stages[1].points[2][2] = Num(9000)
    /\ document = first_result

----------------------------------------------------------------------------
(* Further properties of the exit-trigger converter (checked under SpecExit) *)

Comparisons == {">=", "<=", ">", "<"}

\* Some real number satisfies both conditions: two bounds on the same side
\* always, a lower bound L and an upper bound U when L < U, or when L = U and
\* neither bound is strict
Satisfiable(a, b) ==
    LET IsLower(t) == t.comparison \in {">=", ">"}
        IsStrict(t) == t.comparison \in {">", "<"}
        lo == IF IsLower(a) THEN a ELSE b
        hi == IF IsLower(a) THEN b ELSE a
    IN  \/ IsLower(a) = IsLower(b)
        \/ lo.value < hi.value
        \/ lo.value = hi.value /\ ~IsStrict(lo) /\ ~IsStrict(hi)

\* C22: for every ordered pair of triggers of the same type with comparisons
\* among >=, <=, >, < and any values, detect_conflicting_triggers emits exactly
\* one warning for the pair if and only if no real number satisfies both
\* conditions, also when the two bounds are equal; a pair that some value
\* satisfies is never reported.
C22_ConflictIffUnsatisfiable ==
    (/\ xpc = "detected"
     /\ Len(triggers) = 2
     /\ triggers[1].type = triggers[2].type
     /\ triggers[1].comparison \in Comparisons
     /\ triggers[2].comparison \in Comparisons) =>
        Len(conflict_warnings) = IF Satisfiable(triggers[1], triggers[2]) THEN 0 ELSE 1

----------------------------------------------------------------------------
(* Further properties of translate_profile (checked under Spec) *)

\* The documented threshold table of the pressure-delta heuristic
HeuristicDuration(delta) ==
    IF delta > 3000 THEN 1500 ELSE IF delta < 1000 THEN 7000 ELSE 4000

\* C23: for a stage with at most one point, no time trigger and a transition
\* type other than instant, in every transition mode, the phase duration and
\* the transition duration are given by the pressure-delta heuristic with
\* delta = |v - 0| for a pressure stage and 0 otherwise (1.5 s above 3.0,
\* 7.0 s below 1.0, else 4.0 s), never below 1.0 s, and never a fixed value
\* unrelated to the curve.
C23_SinglePointHeuristicDuration ==
    \A k \in StagePositions :
        (/\ Emitted(k, 1)
         /\ Len(stages[k].points) <= 1
         /\ FirstIndex(stages[k].exit_triggers, "time") = 0
         /\ PhaseOf(k, 1).transition.type # "instant") =>
            LET v == TerminalValue(stages[k], 1)
                delta == IF stages[k].type = "pressure" THEN Abs(v - 0) ELSE 0
                expected == Max(HeuristicDuration(delta), 1000)
            IN  /\ PhaseOf(k, 1).duration = expected
                /\ PhaseOf(k, 1).transition.duration = expected

\* C24: for every segment i of a stage with N >= 2 points whose transition
\* type is not instant, in every transition mode, the transition duration is
\* 1.5 s if d > 3.0, 7.0 s if d < 1.0 and 4.0 s otherwise, with
\* d = |v[i] - v[i-1]| for a pressure stage and d = 0 for any other type; no
\* 1.0 s floor is applied.
C24_SegmentHeuristicDuration ==
    \A k \in StagePositions : \A i \in Segments(k) :
        (/\ Emitted(k, i)
         /\ Len(stages[k].points) >= 2
         /\ PhaseOf(k, i).transition.type # "instant") =>
            LET d == IF stages[k].type = "pressure"
                         THEN Abs(stages[k].points[i + 1][2] - stages[k].points[i][2])
                     ELSE 0
            IN  PhaseOf(k, i).transition.duration = HeuristicDuration(d)

\* C25: every phase emitted for a stage with N >= 2 points with a linear
\* transition has a transition duration equal to the phase's own duration
\* (a power stage with points [[0,100],[5,50],[10,0]] gives two phases, each
\* of duration 5.0 with transition duration 5.0).
C25_LinearTransitionLastsThePhase ==
    \A k \in StagePositions : \A i \in Segments(k) :
        (/\ Emitted(k, i)
         /\ Len(stages[k].points) >= 2
         /\ PhaseOf(k, i).transition.type = "linear") =>
            PhaseOf(k, i).transition.duration = PhaseOf(k, i).duration

----------------------------------------------------------------------------
(* Further properties of resolve_variables (checked under SpecResolve) *)

\* The keys the strings "$name..." of the values of a document mention
MentionedKeys(doc) ==
    {ReferredKey(e.value) : e \in Range(ValuesInDocumentOrder(doc))} \ {<<>>}

UnusedWarnings == SelectSeq(warned, LAMBDA w : w.warning.kind = "unused_variables")

\* C27: resolve_variables emits at most one unused-variable warning per call;
\* the warning names exactly the variable keys that no "$" reference in the
\* curve points, trigger values or limit values of the input document
\* mentions; a variable some stage refers to is never named, and there is no
\* warning when every variable is referred to.
C27_UnusedNamesUnreferencedOnly ==
    rpc = "resolved" =>
        LET unreferenced ==
                SelectSeq(given.variables, LAMBDA v : v.key \notin MentionedKeys(given))
        IN  IF unreferenced = <<>> THEN UnusedWarnings = <<>>
            ELSE /\ Len(UnusedWarnings) = 1
                 /\ UnusedWarnings[1].warning.keys =
                        [k \in DOMAIN unreferenced |-> unreferenced[k].key]

\* The text after the leading "$" of a string value is the key of a variable
IsWholeKey(table, value) ==
    /\ value.kind = "str"
    /\ Len(value.val) >= 1
    /\ value.val[1] = "$"
    /\ \E k \in DOMAIN table : table[k].key = Tail(value.val)

\* C28: resolve_variables substitutes a string value only when the whole text
\* after the leading "$" is the key of a defined variable, and then by that
\* variable's value; every other string starting with "$" (a longer
\* identifier, a defined key followed by further characters, a malformed
\* reference) and every other value is returned unchanged.
C28_SubstitutesWholeKeyOnly ==
    rpc = "resolved" =>
        LET table == given.variables
            before == ValuesInDocumentOrder(given)
            after == ValuesInDocumentOrder(document)
        IN  \A n \in DOMAIN before :
                IF IsWholeKey(table, before[n].value)
                    THEN ValueOf(table, Tail(before[n].value.val)).kind = "num" =>
                             after[n].value = ValueOf(table, Tail(before[n].value.val))
                ELSE after[n].value = before[n].value

\* C29: resolve_variables (and translate_profile, which hands it its own
\* argument) leaves the document object supplied by the caller unchanged:
\* after the call, successful or failed, the caller's document still holds
\* its original "$" references, stages and variable table.
C29_CallerDocumentUnchanged ==
    rpc \in {"resolved", "raised"} => document = given

----------------------------------------------------------------------------
(* Properties of the validator's phase matching (checked under SpecValidate) *)

\* C30: match_phases pairs every phase translate_profile emitted with the
\* source stage that produced it: all N-1 split phases "S (1/(N-1))" ..
\* "S ((N-1)/(N-1))" of a stage S are matched to that stage, every phase of a
\* later stage is matched to its own stage, and no phase is left unmatched.
C30_EveryPhaseMatchedToItsStage ==
    vpc = "matched" =>
        /\ Len(matches) = Len(phases)
        /\ \A k \in StagePositions : \A i \in Segments(k) :
               \E n \in DOMAIN matches :
                   /\ matches[n].gaggimate_phase = Offset(k) + i
                   /\ matches[n].meticulous_stage = k

----------------------------------------------------------------------------
(* Properties of process_batch *)

\* The exception translate_profile raises for a document, NoException when
\* it returns
TranslationFailure(doc) ==
    LET r == resolve_variables(doc, DEFAULT_MAX_DEPTH)
        unresolved == find_unresolved_variables(r.data)
        profile == MeticulousProfile(r.data)
    IN  IF r.raises THEN r.error
        ELSE IF unresolved # <<>> THEN UndefinedVariableError(unresolved)
        ELSE IF ~ModelValidates(r.data) THEN [type |-> "ValidationError"]
        ELSE IF \E i \in DOMAIN profile.stages :
                    LET stage == profile.stages[i]
                    IN  \/ /\ Len(stage.points) = 0
                           /\ ~PumpSettingsValid(PumpMapping(stage, 0))
                        \/ \E j \in DOMAIN stage.points :
                               /\ j > 1 \/ Len(stage.points) = 1
                               /\ ~PumpSettingsValid(PumpMapping(stage, stage.points[j][2]))
            THEN [type |-> "ValidationError"]
        ELSE NoException

\* The entry of a file processed on its own
ExpectedEntry(file) ==
    LET name == file.path[Len(file.path)]
        input_path == Join([k \in DOMAIN file.path |-> <<file.path[k]>>], <<"/">>)
        failed(text) == [file |-> name, status |-> "failed", error |-> text,
                         input_path |-> input_path]
    IN  IF ~file.exists THEN failed(<<"Input file not found: ">> \o input_path)
        ELSE IF ~file.json_ok THEN failed(<<"Invalid JSON syntax in ">> \o input_path)
        ELSE IF TranslationFailure(file.document) # NoException
            THEN failed(ExceptionStr(TranslationFailure(file.document)))
        ELSE IF ~file.writable THEN failed(<<"OSError">>)
        ELSE [file |-> name, status |-> "success",
              output |-> <<"TranslatedToGaggimate", "/">> \o <<name>>,
              input_path |-> input_path]

\* What holds of the entries while process_batch runs and of the BatchResult
\* once it has returned
BatchEntriesAsExpected ==
    /\ bpc \in {"read", "translate"} =>
           /\ Len(results) = file_idx - 1
           /\ file_idx <= Len(files) + 1
    /\ \A k \in DOMAIN results : results[k] = ExpectedEntry(files[k])
    /\ bpc = "finished" =>
           /\ batch_result.processed = Len(files)
           /\ batch_result.successful + batch_result.failed = batch_result.processed
           /\ batch_result.failed =
                  Cardinality({k \in DOMAIN files :
                                  ExpectedEntry(files[k]).status = "failed"})
           /\ Len(batch_result.details) = Len(files)
           /\ \A k \in DOMAIN files :
                  batch_result.details[k] = ExpectedEntry(files[k])

\* C21: process_batch returns, for every list of input files, with
\* processed = number of input files, successful + failed = processed and
\* one details entry per input file in input order; a file whose read,
\* translation or write fails is recorded as "failed" with its error message
\* and does not stop the batch, and every entry is the one the file gets
\* when it is processed on its own, whatever the other files of the list are.
C21_BatchRecordsEveryFile ==
    /\ []BatchEntriesAsExpected
    /\ <>(bpc = "finished")

\* A finished batch of three files whose second file failed, between two
\* files that succeeded
C21_Witness ==
    /\ bpc = "finished"
    /\ Len(files) = 3
    /\ batch_result.details[1].status = "success"
    /\ batch_result.details[2].status = "failed"
    /\ batch_result.details[2].error # <<>>
    /\ batch_result.details[3].status = "success"
    /\ batch_result.successful = 2
    /\ batch_result.failed = 1

====
